---- MODULE Spec2Model ----
(***************************************************************************)
(* Incremental ingestion and validation engine of ca-token-usage-monitors. *)
(*                                                                         *)
(* Three independent pipelines write into one analytical store:            *)
(*   codex    - session JSONL logs keyed by a cumulative token total,      *)
(*   gemini   - telemetry JSONL logs keyed by (event_timestamp, model),    *)
(*   opencode - a relational message store read through an ordered cursor. *)
(* A behaviour runs one pipeline, chosen in Init (variable pipeline).      *)
(*                                                                         *)
(* Abstractions: timestamps are integers (every conversion in the code     *)
(* keeps the instant: ISO text -> aware datetime -> TIMESTAMPTZ -> text);  *)
(* st_size is the number of lines of a file; columns that no operation     *)
(* reads back (ingested_at, updated_at, turn_id, cwd, titles) are left out.*)
(***************************************************************************)
EXTENDS Integers, Sequences, FiniteSets, TLC

\* Python None / SQL NULL where the value is a string, and where it is a record.
NULL == "null"
NONE == [none |-> TRUE]

(***************************************************************************)
(* Bounds of the model.                                                    *)
(***************************************************************************)
MaxEvents == 3
MaxTs == 2
MaxMtime == 1
MaxWrites == 4
MaxGeminiEvents == 3
MaxMessages == 2
MaxClock == 2
MaxBatch == 2
MaxLines == 5
MaxMetaLines == 3
MaxMinted == 2
MaxLogLen == 3

VARIABLES
    pipeline,      \* which pipeline this behaviour exercises
    cxFile,        \* codex: lines of the session file, in file order
    cxMtime,       \* codex: st_mtime of the session file
    cxDetails,     \* codex: table codex_session_details
    cxMeta,        \* codex: table codex_session_metadata
    cxFileState,   \* codex: table codex_ingestion_files
    cxCounters,    \* codex: IngestionCounters returned by the last ingest()
    cxLast,        \* codex: what the last step did to the session file
    cxDir,         \* codex: the other session files of the sessions root
    cxRun,         \* codex: the pass of the last ingest() over each file
    gmFiles,       \* gemini: the telemetry file at each path (NONE: no file)
    gmSources,     \* gemini: table gemini_ingestion_sources
    gmEvents,      \* gemini: table gemini_usage_events
    gmCounters,    \* gemini: IngestionCounters of the last ingest()
    gmLast,        \* gemini: what the last step did
    ocMessages,    \* opencode: table message of the source database
    ocNow,         \* opencode: clock of the source, in milliseconds
    ocUsage,       \* opencode: table opencode_message_usage
    ocSessions,    \* opencode: table opencode_sessions
    ocCounters,    \* opencode: IngestionCounters of the last ingest()
    ocLast,        \* opencode: what the last step did
    mdFile,        \* preprocessing: the JSONL file, [lines] (NONE: no file)
    mdTemp,        \* preprocessing: whether the .jsonl.tmp file exists
    mdMinted,      \* preprocessing: how many ids uuid4() has produced
    mdLast,        \* preprocessing: what the last step did
    mdLog          \* preprocessing: the records of the raw telemetry log

cxVars ==
    <<cxFile, cxMtime, cxDetails, cxMeta, cxFileState, cxCounters, cxLast,
      cxDir, cxRun>>
gmVars == <<gmFiles, gmSources, gmEvents, gmCounters, gmLast>>
ocVars == <<ocMessages, ocNow, ocUsage, ocSessions, ocCounters, ocLast>>
mdVars == <<mdFile, mdTemp, mdMinted, mdLast, mdLog>>
vars == <<pipeline, cxVars, gmVars, ocVars, mdVars>>

(***************************************************************************)
(* Generic helpers.                                                        *)
(***************************************************************************)
Range(s) == {s[i] : i \in DOMAIN s}

\* Lexicographic order on pairs of integers (Python tuple comparison).
PairLess(a, b) == a[1] < b[1] \/ (a[1] = b[1] /\ a[2] < b[2])

(***************************************************************************)
(* CODEX                                                                   *)
(***************************************************************************)
CodexPath == "s1.jsonl"
CodexSession == "sid1"
\* The session files a sessions root may hold.
CodexPaths == {"s0.jsonl", "s1.jsonl", "s2.jsonl"}
CodexOtherPaths == CodexPaths \ {CodexPath}
CodexModel == "gpt-5"

TOKEN_FIELDS ==
    <<"input_tokens", "cached_input_tokens", "output_tokens",
      "reasoning_output_tokens", "total_tokens">>

TokenUsageValues(i, c, o, r, t) ==
    [input_tokens |-> i, cached_input_tokens |-> c, output_tokens |-> o,
     reasoning_output_tokens |-> r, total_tokens |-> t]

\* Cumulative snapshots a token_count event may carry.  UB and UB2 have the
\* same total_tokens and different fields.
UA == TokenUsageValues(1, 0, 0, 0, 1)
UB == TokenUsageValues(1, 0, 1, 0, 2)
UB2 == TokenUsageValues(2, 0, 0, 0, 2)
UC == TokenUsageValues(2, 1, 1, 1, 3)
\* Incremental snapshots: UA -> UB, UB -> UC, and one that matches no pair.
DAB == TokenUsageValues(0, 0, 1, 0, 1)
DBC == TokenUsageValues(1, 1, 0, 1, 1)
DBad == TokenUsageValues(0, 0, 0, 1, 1)

\* (total_token_usage, last_token_usage) pairs of the appended token events.
CodexPayloads ==
    { [total |-> UA, last |-> UA],
      [total |-> UB, last |-> DAB],
      [total |-> UC, last |-> DBC],
      [total |-> UB, last |-> DBad],
      [total |-> UB2, last |-> UA] }

MetaLine(id) == [type |-> "session_meta", id |-> id]
TurnLine(model) == [type |-> "turn_context", model |-> model]
TokenLine(ts, p) ==
    [type |-> "token_count", ts |-> ts, total |-> p.total, last |-> p.last]
\* A line that is not a JSON object.
MalformedLine == [type |-> "malformed"]
\* A turn_context event whose payload has no model key.
TurnLineNoModel == [type |-> "turn_context"]
\* A token_count event whose payload.info is null.
InfoNullLine(ts) == [type |-> "token_count", ts |-> ts, info |-> NULL]
\* A token_count event whose JSON departs at one place from two snapshots of
\* five integers: under key ("total_token_usage" or "last_token_usage") the
\* field is absent or holds a value of JSON type json ("str", "float", "bool",
\* "null"; a true boolean where the snapshot p says 1); with field NULL the
\* snapshot itself is not an object.
AnomalousTokenLine(ts, p, key, field, json) ==
    [type |-> "token_count", ts |-> ts, total |-> p.total, last |-> p.last,
     anomaly |-> [key |-> key, field |-> field, json |-> json]]

ZeroCounters ==
    [files_scanned |-> 0, files_ingested |-> 0, files_skipped_unchanged |-> 0,
     sessions_ingested |-> 0, token_rows_raw |-> 0, token_rows_deduped |-> 0,
     token_rows_skipped_info_null |-> 0,
     token_rows_skipped_before_checkpoint |-> 0, duplicate_rows_skipped |-> 0,
     monotonicity_errors |-> 0, delta_consistency_errors |-> 0,
     parse_errors |-> 0, failed_files |-> <<>>]

NoLast == [op |-> "none"]

\* TokenEventRow.total_tokens_cumulative
Cumulative(row) == row.total_usage.total_tokens

----------------------------------------------------------------------------
\* parser.py

\* The first session_meta event decides the identity of the file.
\* _iter_json_events raises ParseError on a malformed line it reaches.
ParseSessionIdentity(lines) ==
    LET metas == {i \in DOMAIN lines :
                     lines[i].type \in {"session_meta", "malformed"}} IN
    IF metas = {} THEN [err |-> "SessionIdentityError", session_id |-> NULL]
    ELSE LET first == CHOOSE i \in metas : \A j \in metas : i <= j IN
         IF lines[first].type = "malformed"
         THEN [err |-> "ParseError", session_id |-> NULL]
         ELSE IF lines[first].id = NULL
         THEN [err |-> "SessionIdentityError", session_id |-> NULL]
         ELSE [err |-> NULL, session_id |-> lines[first].id]

\* Mutant: the row of the checkpoint itself is left out of the tail window.
CodexPassesAfterCheckpoint(event_timestamp, total_tokens_cumulative, checkpoint) ==
    \/ event_timestamp > checkpoint.last_ts
    \/ /\ event_timestamp = checkpoint.last_ts
       /\ total_tokens_cumulative > checkpoint.last_total_tokens_cumulative

CodexPassesCheckpoint(event_timestamp, total_tokens_cumulative, checkpoint) ==
    IF event_timestamp > checkpoint.last_ts THEN TRUE
    ELSE event_timestamp = checkpoint.last_ts
         /\ total_tokens_cumulative >= checkpoint.last_total_tokens_cumulative

\* Mutant: a null model leaves the model of the earlier turn in force.
TurnContextModelKeepLast(ev, current_model_code) ==
    IF "model" \in DOMAIN ev /\ ev.model # NULL THEN ev.model
    ELSE current_model_code

\* The model in force after a turn_context event: the value of its model key
\* (a string or null) when it has one.
TurnContextModel(ev, current_model_code) ==
    IF "model" \in DOMAIN ev THEN ev.model ELSE current_model_code

\* isinstance(raw_value, int) by the JSON type of the value: in Python bool is
\* a subclass of int.
IsInstanceInt(json) == json \in {"int", "bool"}

\* _extract_usage_snapshot: [err, values]; values is NONE when the snapshot is
\* not an object or lacks a field.  The loop over TOKEN_FIELDS passes the
\* integer fields and stops at the one field that departs, if any.
ExtractUsageSnapshot(ev, key) ==
    IF "anomaly" \notin DOMAIN ev \/ ev.anomaly.key # key
    THEN [err |-> NULL,
          values |-> IF key = "total_token_usage" THEN ev.total ELSE ev.last]
    ELSE IF ev.anomaly.field = NULL \/ ev.anomaly.json = "absent"
    THEN [err |-> NULL, values |-> NONE]
    ELSE IF ~IsInstanceInt(ev.anomaly.json)
    THEN [err |-> "ParseError", values |-> NONE]
    ELSE [err |-> NULL,
          values |-> IF key = "total_token_usage" THEN ev.total ELSE ev.last]

\* The mutant of the row counter: a row before the checkpoint is counted as
\* skipped and not as read.
ParseTokenCountPassing(ev, i, identity, checkpoint, st, total_usage, last_usage) ==
    IF total_usage.err # NULL THEN [st EXCEPT !.err = total_usage.err]
    ELSE IF last_usage.err # NULL THEN [st EXCEPT !.err = last_usage.err]
    ELSE IF total_usage.values = NONE \/ last_usage.values = NONE THEN st
    ELSE IF st.current_model_code = NULL THEN
        [st EXCEPT !.err = "ModelAttributionError"]
    ELSE IF checkpoint # NONE
            /\ ~(ev.ts > checkpoint.last_ts
                  \/ (ev.ts = checkpoint.last_ts
                        /\ total_usage.values.total_tokens
                              >= checkpoint.last_total_tokens_cumulative))
    THEN [st EXCEPT !.token_rows_skipped_before_checkpoint = @ + 1]
    ELSE [st EXCEPT !.token_rows_raw = @ + 1,
                    !.token_rows = Append(@,
                        [session_id |-> identity.session_id,
                         event_timestamp |-> ev.ts,
                         event_line_number |-> i,
                         model_code |-> st.current_model_code,
                         total_usage |-> total_usage.values,
                         last_usage |-> last_usage.values])]

\* The part of the loop of parse_session_file that follows the extraction of
\* total_usage and last_usage from a token_count event.
ParseTokenCount(ev, i, identity, checkpoint, st, total_usage, last_usage) ==
    IF total_usage.err # NULL THEN [st EXCEPT !.err = total_usage.err]
    ELSE IF last_usage.err # NULL THEN [st EXCEPT !.err = last_usage.err]
    ELSE IF total_usage.values = NONE \/ last_usage.values = NONE THEN st
    ELSE IF st.current_model_code = NULL THEN
        [st EXCEPT !.err = "ModelAttributionError"]
    ELSE IF checkpoint # NONE
            /\ ~CodexPassesCheckpoint(ev.ts, total_usage.values.total_tokens,
                                      checkpoint)
    THEN [st EXCEPT !.token_rows_raw = @ + 1,
                    !.token_rows_skipped_before_checkpoint = @ + 1]
    ELSE [st EXCEPT !.token_rows_raw = @ + 1,
                    !.token_rows = Append(@,
                        [session_id |-> identity.session_id,
                         event_timestamp |-> ev.ts,
                         event_line_number |-> i,
                         model_code |-> st.current_model_code,
                         total_usage |-> total_usage.values,
                         last_usage |-> last_usage.values])]

\* One iteration of the loop of parse_session_file over event ev at line i.
ParseSessionLine(ev, i, identity, checkpoint, st) ==
    IF ev.type = "malformed" THEN [st EXCEPT !.err = "ParseError"]
    ELSE IF ev.type = "session_meta" /\ ~st.first_session_meta_seen THEN
        IF ev.id = NULL \/ ev.id # identity.session_id
        THEN [st EXCEPT !.err = "SessionIdentityError"]
        ELSE [st EXCEPT !.first_session_meta_seen = TRUE]
    ELSE IF ev.type = "turn_context" THEN
        [st EXCEPT !.current_model_code = TurnContextModel(ev, @)]
    ELSE IF ev.type # "token_count" THEN st
    ELSE IF "info" \in DOMAIN ev THEN
        [st EXCEPT !.token_rows_skipped_info_null = @ + 1]
    ELSE ParseTokenCount(ev, i, identity, checkpoint, st,
                         ExtractUsageSnapshot(ev, "total_token_usage"),
                         ExtractUsageSnapshot(ev, "last_token_usage"))

RECURSIVE ParseSessionLines(_, _, _, _, _)
ParseSessionLines(lines, i, identity, checkpoint, st) ==
    IF i > Len(lines) \/ st.err # NULL THEN st
    ELSE ParseSessionLines(lines, i + 1, identity, checkpoint,
                           ParseSessionLine(lines[i], i, identity, checkpoint, st))

\* The check made after the loop of parse_session_file.
ParseSessionEnd(st) ==
    IF st.err = NULL /\ ~st.first_session_meta_seen
    THEN [st EXCEPT !.err = "SessionIdentityError"]
    ELSE st

ParseSessionFile(lines, identity, checkpoint) ==
    LET st0 == [err |-> NULL, current_model_code |-> NULL, token_rows |-> <<>>,
                token_rows_raw |-> 0, token_rows_skipped_info_null |-> 0,
                token_rows_skipped_before_checkpoint |-> 0,
                first_session_meta_seen |-> FALSE]
    IN  ParseSessionEnd(ParseSessionLines(lines, 1, identity, checkpoint, st0))

----------------------------------------------------------------------------
\* dedupe.py

\* Mutant: the payload of a duplicate is its cumulative snapshot alone.
RowsHaveMatchingTotals(left, right) ==
    left.total_usage = right.total_usage

RowsHaveMatchingPayload(left, right) ==
    left.total_usage = right.total_usage /\ left.last_usage = right.last_usage

\* The loop of dedupe_and_validate_token_rows; acc.first_by_cumulative is the
\* dict from cumulative total to the first row that carried it.
RECURSIVE DedupeLoop(_, _, _)
DedupeLoop(token_rows, i, acc) ==
    IF i > Len(token_rows) \/ acc.err # NULL THEN acc
    ELSE LET row == token_rows[i]
             cumulative == Cumulative(row)
         IN  IF cumulative \notin DOMAIN acc.first_by_cumulative THEN
                 DedupeLoop(token_rows, i + 1,
                     [acc EXCEPT
                        !.first_by_cumulative =
                            [c \in DOMAIN @ \cup {cumulative} |->
                                IF c = cumulative THEN row ELSE @[c]],
                        !.token_rows = Append(@, row)])
             ELSE IF ~RowsHaveMatchingPayload(acc.first_by_cumulative[cumulative], row)
             THEN [acc EXCEPT !.err = "DuplicateConflictError"]
             ELSE DedupeLoop(token_rows, i + 1,
                     [acc EXCEPT !.duplicate_rows_skipped = @ + 1])

ValidateUniqueness(token_rows) ==
    IF \E i, j \in DOMAIN token_rows :
          i < j /\ Cumulative(token_rows[i]) = Cumulative(token_rows[j])
    THEN "DuplicateConflictError" ELSE NULL

\* Mutant: only the delta of total_tokens is compared.
ValidateRowDeltaTotalOnly(previous, current) ==
    IF current.total_usage.total_tokens - previous.total_usage.total_tokens
          # current.last_usage.total_tokens
    THEN "DeltaConsistencyError" ELSE NULL

\* _validate_row_delta: the first field whose delta differs raises.
ValidateRowDelta(previous, current) ==
    IF \E k \in DOMAIN TOKEN_FIELDS :
          current.total_usage[TOKEN_FIELDS[k]] - previous.total_usage[TOKEN_FIELDS[k]]
              # current.last_usage[TOKEN_FIELDS[k]]
    THEN "DeltaConsistencyError" ELSE NULL

\* Mutant: the cumulative totals are not compared, only the deltas.
RECURSIVE ValidateDeltasOnly(_, _)
ValidateDeltasOnly(token_rows, i) ==
    IF i > Len(token_rows) THEN NULL
    ELSE IF ValidateRowDelta(token_rows[i - 1], token_rows[i]) # NULL
    THEN ValidateRowDelta(token_rows[i - 1], token_rows[i])
    ELSE ValidateDeltasOnly(token_rows, i + 1)

\* _validate_monotonicity_and_deltas from the pair (i-1, i) on.
RECURSIVE ValidateMonotonicityAndDeltas(_, _)
ValidateMonotonicityAndDeltas(token_rows, i) ==
    IF i > Len(token_rows) THEN NULL
    ELSE IF Cumulative(token_rows[i]) <= Cumulative(token_rows[i - 1])
    THEN "MonotonicityError"
    ELSE IF ValidateRowDelta(token_rows[i - 1], token_rows[i]) # NULL
    THEN ValidateRowDelta(token_rows[i - 1], token_rows[i])
    ELSE ValidateMonotonicityAndDeltas(token_rows, i + 1)

DedupeAndValidateTokenRows(token_rows) ==
    LET acc == DedupeLoop(token_rows, 1,
                   [err |-> NULL, first_by_cumulative |-> <<>>,
                    token_rows |-> <<>>, duplicate_rows_skipped |-> 0])
    IN  IF acc.err # NULL
        THEN [err |-> acc.err, token_rows |-> <<>>, duplicate_rows_skipped |-> 0]
        ELSE IF ValidateUniqueness(acc.token_rows) # NULL
        THEN [err |-> ValidateUniqueness(acc.token_rows), token_rows |-> <<>>,
              duplicate_rows_skipped |-> 0]
        ELSE IF ValidateMonotonicityAndDeltas(acc.token_rows, 2) # NULL
        THEN [err |-> ValidateMonotonicityAndDeltas(acc.token_rows, 2),
              token_rows |-> <<>>, duplicate_rows_skipped |-> 0]
        ELSE [err |-> NULL, token_rows |-> acc.token_rows,
              duplicate_rows_skipped |-> acc.duplicate_rows_skipped]

----------------------------------------------------------------------------
\* repository.py

\* get_session_checkpoint: ORDER BY event_timestamp DESC,
\* total_tokens_cumulative DESC LIMIT 1.
GetSessionCheckpoint(details, session_id) ==
    LET rows == {r \in details : r.session_id = session_id} IN
    IF rows = {} THEN NONE
    ELSE LET top == CHOOSE r \in rows : \A q \in rows :
                       q = r \/ PairLess(<<q.event_timestamp, q.total_tokens_cumulative>>,
                                         <<r.event_timestamp, r.total_tokens_cumulative>>)
         IN  [last_ts |-> top.event_timestamp,
              last_total_tokens_cumulative |-> top.total_tokens_cumulative]

\* The column values insert_session_details binds for one TokenEventRow.
DetailRow(row) ==
    [session_id |-> row.session_id,
     event_timestamp |-> row.event_timestamp,
     event_line_number |-> row.event_line_number,
     model_code |-> row.model_code,
     total_tokens_cumulative |-> Cumulative(row),
     input_tokens |-> row.last_usage.input_tokens,
     cached_input_tokens |-> row.last_usage.cached_input_tokens,
     output_tokens |-> row.last_usage.output_tokens,
     reasoning_output_tokens |-> row.last_usage.reasoning_output_tokens,
     total_tokens |-> row.last_usage.total_tokens]

\* The mutant of the insert: ON CONFLICT ... DO UPDATE, the row of a key
\* that is stored takes the place of the stored row.
RECURSIVE InsertSessionDetailsOrUpdate(_, _, _)
InsertSessionDetailsOrUpdate(details, token_rows, i) ==
    IF i > Len(token_rows) THEN details
    ELSE LET new == DetailRow(token_rows[i])
             kept == {r \in details :
                         ~(/\ r.session_id = new.session_id
                           /\ r.total_tokens_cumulative = new.total_tokens_cumulative)}
         IN  InsertSessionDetailsOrUpdate(kept \cup {new}, token_rows, i + 1)

\* INSERT ... ON CONFLICT (session_id, total_tokens_cumulative) DO NOTHING,
\* one row after the other.
RECURSIVE InsertSessionDetails(_, _, _)
InsertSessionDetails(details, token_rows, i) ==
    IF i > Len(token_rows) THEN details
    ELSE LET new == DetailRow(token_rows[i])
             conflict == \E r \in details :
                            /\ r.session_id = new.session_id
                            /\ r.total_tokens_cumulative = new.total_tokens_cumulative
         IN  InsertSessionDetails(IF conflict THEN details ELSE details \cup {new},
                                  token_rows, i + 1)

\* INSERT ... ON CONFLICT (session_id) DO UPDATE.
UpsertSessionMetadata(meta, row) ==
    {m \in meta : m.session_id # row.session_id} \cup {row}

\* INSERT ... ON CONFLICT (session_file_path) DO UPDATE.
UpsertFileState(files, state) ==
    {f \in files : f.session_file_path # state.session_file_path} \cup {state}

GetFileState(files, path) ==
    IF \E f \in files : f.session_file_path = path
    THEN CHOOSE f \in files : f.session_file_path = path
    ELSE NONE

----------------------------------------------------------------------------
\* service.py

BuildFileState(path, lines, mtime) ==
    [session_file_path |-> path, file_size_bytes |-> Len(lines), file_mtime |-> mtime]

FileStateMatches(existing, current) ==
    IF existing = NONE THEN FALSE
    ELSE existing.file_size_bytes = current.file_size_bytes
         /\ existing.file_mtime = current.file_mtime

\* The except clauses of ingest(): the counter an error is counted in.
CountFailure(counters, path, err) ==
    LET failed == [counters EXCEPT !.failed_files = Append(@, path)] IN
    IF err = "MonotonicityError"
    THEN [failed EXCEPT !.monotonicity_errors = @ + 1]
    ELSE IF err = "DeltaConsistencyError"
    THEN [failed EXCEPT !.delta_consistency_errors = @ + 1]
    ELSE [failed EXCEPT !.parse_errors = @ + 1]

\* Mutant: a failed file is recorded in codex_ingestion_files all the same.
FailedFileRecorded(db, counters, path, err, checkpoint, parsed) ==
    [db |-> [db EXCEPT !.files = UpsertFileState(@,
                 [session_file_path |-> path, file_size_bytes |-> 0,
                  file_mtime |-> 0])],
     counters |-> CountFailure(counters, path, err),
     last |-> [op |-> "ingest", outcome |-> err, checkpoint |-> checkpoint,
               parsed |-> parsed, deduped |-> <<>>, duplicate_rows_skipped |-> 0]]

Failed(db, counters, path, err, checkpoint, parsed) ==
    [db |-> db, counters |-> CountFailure(counters, path, err),
     last |-> [op |-> "ingest", outcome |-> err, checkpoint |-> checkpoint,
               parsed |-> parsed, deduped |-> <<>>, duplicate_rows_skipped |-> 0]]

\* The mutant of the loop body: the snapshot of a file that failed is
\* recorded as the one of a file that succeeded is.
CodexIngestFileRecordingFailure(path, lines, mtime, db, counters0) ==
    LET counters == [counters0 EXCEPT !.files_scanned = @ + 1]
        current_file_state == BuildFileState(path, lines, mtime)
        prior_file_state == GetFileState(db.files, path)
        session_identity == ParseSessionIdentity(lines)
        checkpoint == GetSessionCheckpoint(db.details, session_identity.session_id)
        parsed == ParseSessionFile(lines, session_identity, checkpoint)
        dedupe_result == DedupeAndValidateTokenRows(parsed.token_rows)
    IN
    IF FileStateMatches(prior_file_state, current_file_state) THEN
        [db |-> db,
         counters |-> [counters EXCEPT !.files_skipped_unchanged = @ + 1],
         last |-> [op |-> "ingest", outcome |-> "skipped_unchanged",
                   checkpoint |-> NONE, parsed |-> <<>>, deduped |-> <<>>,
                   duplicate_rows_skipped |-> 0]]
    ELSE IF session_identity.err # NULL THEN
        Failed([db EXCEPT !.files = UpsertFileState(@, current_file_state)],
               counters, path, session_identity.err, NONE, <<>>)
    ELSE IF parsed.err # NULL THEN
        Failed([db EXCEPT !.files = UpsertFileState(@, current_file_state)],
               counters, path, parsed.err, checkpoint, <<>>)
    ELSE IF dedupe_result.err # NULL THEN
        Failed([db EXCEPT !.files = UpsertFileState(@, current_file_state)],
               counters, path, dedupe_result.err, checkpoint, parsed.token_rows)
    ELSE
        [db |-> [details |-> InsertSessionDetails(db.details, dedupe_result.token_rows, 1),
                 meta |-> UpsertSessionMetadata(db.meta,
                              [session_id |-> session_identity.session_id,
                               session_file_path |-> path]),
                 files |-> UpsertFileState(db.files, current_file_state)],
         counters |-> [counters EXCEPT
             !.files_ingested = @ + 1,
             !.sessions_ingested = @ + 1,
             !.token_rows_raw = @ + parsed.token_rows_raw,
             !.token_rows_deduped = @ + Len(dedupe_result.token_rows),
             !.token_rows_skipped_info_null = @ + parsed.token_rows_skipped_info_null,
             !.token_rows_skipped_before_checkpoint =
                 @ + parsed.token_rows_skipped_before_checkpoint,
             !.duplicate_rows_skipped = @ + dedupe_result.duplicate_rows_skipped],
         last |-> [op |-> "ingest", outcome |-> "ingested", checkpoint |-> checkpoint,
                   parsed |-> parsed.token_rows,
                   deduped |-> dedupe_result.token_rows,
                   duplicate_rows_skipped |-> dedupe_result.duplicate_rows_skipped]]

\* The body of the loop of IngestionService.ingest() for one session file.
\* db = [details, meta, files]; the three writes commit in one transaction.
CodexIngestFile(path, lines, mtime, db, counters0) ==
    LET counters == [counters0 EXCEPT !.files_scanned = @ + 1]
        current_file_state == BuildFileState(path, lines, mtime)
        prior_file_state == GetFileState(db.files, path)
        session_identity == ParseSessionIdentity(lines)
        checkpoint == GetSessionCheckpoint(db.details, session_identity.session_id)
        parsed == ParseSessionFile(lines, session_identity, checkpoint)
        dedupe_result == DedupeAndValidateTokenRows(parsed.token_rows)
    IN
    IF FileStateMatches(prior_file_state, current_file_state) THEN
        [db |-> db,
         counters |-> [counters EXCEPT !.files_skipped_unchanged = @ + 1],
         last |-> [op |-> "ingest", outcome |-> "skipped_unchanged",
                   checkpoint |-> NONE, parsed |-> <<>>, deduped |-> <<>>,
                   duplicate_rows_skipped |-> 0]]
    ELSE IF session_identity.err # NULL THEN
        Failed(db, counters, path, session_identity.err, NONE, <<>>)
    ELSE IF parsed.err # NULL THEN
        Failed(db, counters, path, parsed.err, checkpoint, <<>>)
    ELSE IF dedupe_result.err # NULL THEN
        Failed(db, counters, path, dedupe_result.err, checkpoint, parsed.token_rows)
    ELSE
        [db |-> [details |-> InsertSessionDetails(db.details, dedupe_result.token_rows, 1),
                 meta |-> UpsertSessionMetadata(db.meta,
                              [session_id |-> session_identity.session_id,
                               session_file_path |-> path]),
                 files |-> UpsertFileState(db.files, current_file_state)],
         counters |-> [counters EXCEPT
             !.files_ingested = @ + 1,
             !.sessions_ingested = @ + 1,
             !.token_rows_raw = @ + parsed.token_rows_raw,
             !.token_rows_deduped = @ + Len(dedupe_result.token_rows),
             !.token_rows_skipped_info_null = @ + parsed.token_rows_skipped_info_null,
             !.token_rows_skipped_before_checkpoint =
                 @ + parsed.token_rows_skipped_before_checkpoint,
             !.duplicate_rows_skipped = @ + dedupe_result.duplicate_rows_skipped],
         last |-> [op |-> "ingest", outcome |-> "ingested", checkpoint |-> checkpoint,
                   parsed |-> parsed.token_rows,
                   deduped |-> dedupe_result.token_rows,
                   duplicate_rows_skipped |-> dedupe_result.duplicate_rows_skipped]]

\* sorted(...) over the paths of the model.
CodexPathRank(p) == IF p = "s0.jsonl" THEN 0 ELSE IF p = "s1.jsonl" THEN 1 ELSE 2

\* discover_session_files: the paths that hold a file, in sorted order.
RECURSIVE DiscoverSessionFiles(_, _)
DiscoverSessionFiles(directory, paths) ==
    LET found == {p \in paths : directory[p] # NONE} IN
    IF found = {} THEN <<>>
    ELSE LET first == CHOOSE p \in found :
                        \A q \in found : CodexPathRank(p) <= CodexPathRank(q)
         IN  <<first>> \o DiscoverSessionFiles(directory, found \ {first})

\* Mutant of the loop of ingest(): the first failed file ends the run.
RECURSIVE CodexIngestFilesUntilFailure(_, _, _, _)
CodexIngestFilesUntilFailure(directory, session_files, i, st) ==
    IF i > Len(session_files) \/ st.counters.failed_files # <<>> THEN st
    ELSE LET path == session_files[i]
             res == CodexIngestFile(path, directory[path].lines,
                                    directory[path].mtime, st.db, st.counters)
         IN  CodexIngestFilesUntilFailure(directory, session_files, i + 1,
                 [db |-> res.db, counters |-> res.counters,
                  run |-> Append(st.run,
                            [path |-> path, last |-> res.last,
                             before |-> st.db, after |-> res.db])])

\* The loop of ingest() over the discovered files; st = [db, counters, run],
\* run holding what each pass did and the database before and after it.
RECURSIVE CodexIngestFiles(_, _, _, _)
CodexIngestFiles(directory, session_files, i, st) ==
    IF i > Len(session_files) THEN st
    ELSE LET path == session_files[i]
             res == CodexIngestFile(path, directory[path].lines,
                                    directory[path].mtime, st.db, st.counters)
         IN  CodexIngestFiles(directory, session_files, i + 1,
                 [db |-> res.db, counters |-> res.counters,
                  run |-> Append(st.run,
                            [path |-> path, last |-> res.last,
                             before |-> st.db, after |-> res.db])])

CodexDb == [details |-> cxDetails, meta |-> cxMeta, files |-> cxFileState]
EmptyDb == [details |-> {}, meta |-> {}, files |-> {}]

\* The sessions root: the session file of the model and the other files.
CodexDirectory ==
    [p \in CodexPaths |->
        IF p = CodexPath THEN [lines |-> cxFile, mtime |-> cxMtime] ELSE cxDir[p]]

----------------------------------------------------------------------------
\* Codex actions.

CodexInit ==
    /\ cxFile = <<MetaLine(CodexSession), TurnLine(CodexModel)>>
    /\ cxMtime = 0
    /\ cxDetails = {}
    /\ cxMeta = {}
    /\ cxFileState = {}
    /\ cxCounters = ZeroCounters
    /\ cxLast = NoLast
    /\ cxDir = [p \in CodexOtherPaths |-> NONE]
    /\ cxRun = <<>>

CodexTokenLines == {i \in DOMAIN cxFile : cxFile[i].type = "token_count"}

\* The other session files that exist.
CodexOtherFiles == {p \in CodexOtherPaths : cxDir[p] # NONE}

\* The timestamp of the last token_count event of the log (1 when none).
CodexLastTs ==
    IF CodexTokenLines = {} THEN 1
    ELSE cxFile[CHOOSE i \in CodexTokenLines : \A j \in CodexTokenLines : j <= i].ts

\* The agent appends one token_count event to the session log, stamped with
\* its clock: timestamps never decrease along the file.
CodexAppend ==
    /\ pipeline = "codex"
    /\ Cardinality(CodexTokenLines) + Cardinality(CodexOtherFiles) < MaxEvents
    /\ \E ts \in CodexLastTs..MaxTs, p \in CodexPayloads :
          cxFile' = Append(cxFile, TokenLine(ts, p))
    /\ cxCounters' = ZeroCounters
    /\ cxLast' = [op |-> "append"]
    /\ cxRun' = <<>>
    /\ UNCHANGED <<pipeline, mdVars, cxMtime, cxDetails, cxMeta, cxFileState, cxDir,
                   gmVars, ocVars>>

\* The modification time of the session file changes, its content does not.
CodexTouch ==
    /\ pipeline = "codex"
    /\ cxMtime < MaxMtime
    /\ cxMtime' = cxMtime + 1
    /\ cxCounters' = ZeroCounters
    /\ cxLast' = [op |-> "touch"]
    /\ cxRun' = <<>>
    /\ UNCHANGED <<pipeline, mdVars, cxFile, cxDetails, cxMeta, cxFileState, cxDir,
                   gmVars, ocVars>>

\* The session of each other file, and the content a new file may have: a
\* valid log with one token event, a log without session_meta, a log whose
\* token event precedes every turn_context, and a log with a malformed line.
CodexSessionOf(p) == IF p = "s0.jsonl" THEN "sid0" ELSE "sid2"

CodexNewFiles(p) ==
    {<<MetaLine(CodexSessionOf(p)), TurnLine(CodexModel),
       TokenLine(1, [total |-> UA, last |-> UA])>>,
     <<TurnLine(CodexModel), TokenLine(1, [total |-> UA, last |-> UA])>>,
     <<MetaLine(CodexSessionOf(p)), TokenLine(1, [total |-> UA, last |-> UA])>>,
     <<MetaLine(CodexSessionOf(p)), TurnLine(CodexModel), MalformedLine>>}

\* Another session writes its log under the sessions root.
CodexCreate ==
    /\ pipeline = "codex"
    /\ Cardinality(CodexTokenLines) + Cardinality(CodexOtherFiles) < MaxEvents
    /\ \E p \in CodexOtherPaths :
          /\ cxDir[p] = NONE
          /\ \E lines \in CodexNewFiles(p) :
                cxDir' = [cxDir EXCEPT ![p] = [lines |-> lines, mtime |-> 0]]
    /\ cxCounters' = ZeroCounters
    /\ cxLast' = [op |-> "create"]
    /\ cxRun' = <<>>
    /\ UNCHANGED <<pipeline, mdVars, cxFile, cxMtime, cxDetails, cxMeta, cxFileState,
                   gmVars, ocVars>>

\* The session log is written again with other usage figures in one of its
\* token_count events, under the same cumulative total.
CodexRewrite ==
    /\ pipeline = "codex"
    /\ cxMtime < MaxMtime
    /\ \E i \in CodexTokenLines, p \in CodexPayloads :
          /\ p.total.total_tokens = cxFile[i].total.total_tokens
          /\ <<p.total, p.last>> # <<cxFile[i].total, cxFile[i].last>>
          /\ cxFile' = [cxFile EXCEPT ![i] = TokenLine(cxFile[i].ts, p)]
    /\ cxMtime' = cxMtime + 1
    /\ cxCounters' = ZeroCounters
    /\ cxLast' = [op |-> "rewrite"]
    /\ cxRun' = <<>>
    /\ UNCHANGED <<pipeline, mdVars, cxDetails, cxMeta, cxFileState, cxDir, gmVars, ocVars>>

\* The events a session log may hold after its session_meta: turn_context
\* events that set a model, set it to null or have no model key; well-formed
\* token_count events; token_count events with info null, with a snapshot or
\* a field missing, or with a field that is not a JSON integer.
CodexRawLines ==
    {TurnLine(m) : m \in {CodexModel, "o3", NULL}}
    \cup {TurnLineNoModel}
    \cup {TokenLine(1, [total |-> UA, last |-> UA]),
          TokenLine(2, [total |-> UB, last |-> DAB])}
    \cup {InfoNullLine(1)}
    \cup {AnomalousTokenLine(1, [total |-> UA, last |-> UA],
                             "last_token_usage", NULL, "absent")}
    \cup {AnomalousTokenLine(1, [total |-> UA, last |-> UA],
                             "total_token_usage", "input_tokens", json) :
             json \in {"absent", "str", "float", "bool", "null"}}
    \cup {AnomalousTokenLine(1, [total |-> UA, last |-> UA],
                             "last_token_usage", "total_tokens", "bool")}

\* The checkpoints parse_session_file may be given.
CodexCheckpoints ==
    {NONE, [last_ts |-> 1, last_total_tokens_cumulative |-> 1],
           [last_ts |-> 2, last_total_tokens_cumulative |-> 2]}

\* The agent writes one more event to the session log.
CodexWrite ==
    /\ pipeline = "codex"
    /\ Len(cxFile) < MaxLines
    /\ \E ev \in CodexRawLines : cxFile' = Append(cxFile, ev)
    /\ cxLast' = [op |-> "write"]
    /\ UNCHANGED <<pipeline, mdVars, cxMtime, cxDetails, cxMeta, cxFileState, cxCounters,
                   cxDir, cxRun, gmVars, ocVars>>

\* parse_session_file(session_file_path, session_identity, checkpoint).
CodexParse ==
    /\ pipeline = "codex"
    /\ \E checkpoint \in CodexCheckpoints :
          LET identity == ParseSessionIdentity(cxFile) IN
          /\ identity.err = NULL
          /\ cxLast' = [op |-> "parse", checkpoint |-> checkpoint,
                        parsed |-> ParseSessionFile(cxFile, identity, checkpoint)]
    /\ UNCHANGED <<pipeline, mdVars, cxFile, cxMtime, cxDetails, cxMeta, cxFileState,
                   cxCounters, cxDir, cxRun, gmVars, ocVars>>

\* IngestionService.ingest() over the discovered session files.
CodexIngest ==
    /\ pipeline = "codex"
    /\ \E res \in {CodexIngestFiles(CodexDirectory,
                                    DiscoverSessionFiles(CodexDirectory, CodexPaths), 1,
                                    [db |-> CodexDb, counters |-> ZeroCounters,
                                     run |-> <<>>])} :
         /\ cxDetails' = res.db.details
         /\ cxMeta' = res.db.meta
         /\ cxFileState' = res.db.files
         /\ cxCounters' = res.counters
         /\ cxRun' = res.run
         /\ cxLast' = IF \E i \in DOMAIN res.run : res.run[i].path = CodexPath
                      THEN res.run[CHOOSE i \in DOMAIN res.run :
                                      res.run[i].path = CodexPath].last
                      ELSE [op |-> "ingest", outcome |-> "not_scanned",
                            checkpoint |-> NONE, parsed |-> <<>>, deduped |-> <<>>,
                            duplicate_rows_skipped |-> 0]
    /\ UNCHANGED <<pipeline, mdVars, cxFile, cxMtime, cxDir, gmVars, ocVars>>

\* A sessions root that holds the one session file.
CodexNext == CodexAppend \/ CodexTouch \/ CodexIngest

\* A sessions root that other sessions write to as well.
CodexBatchNext == CodexCreate \/ CodexAppend \/ CodexTouch \/ CodexIngest

(***************************************************************************)
(* GEMINI: gemini_token_usage/ingestion                                    *)
(***************************************************************************)

GeminiPaths == {"a/telemetry.jsonl", "b/telemetry.jsonl"}
GeminiPathA == "a/telemetry.jsonl"
GeminiPathB == "b/telemetry.jsonl"
GeminiProject == "p1"
GeminiProjects == {"p1", "p2"}
GeminiModels == {"flash", "pro"}

\* A JSON value of a token-count attribute: an integer or a string.
TokInt == [type |-> "int", value |-> 1]
TokStr == [type |-> "str"]
TokInt2 == [type |-> "int", value |-> 2]
GeminiTokenValues == {TokInt, TokStr}

\* One gemini_cli.api_response line; the five token-count attributes of the
\* line carry the same JSON value.
UsageLine(ts, model, tok) == [ts |-> ts, model |-> model, tok |-> tok]

\* model_code strings as Python orders them.
ModelRank(m) == IF m = "flash" THEN 1 ELSE 2

EventKey(ev) == <<ev.ts, ev.model>>
KeyLess(a, b) == a[1] < b[1] \/ (a[1] = b[1] /\ ModelRank(a[2]) < ModelRank(b[2]))

GeminiZeroCounters ==
    [sources_scanned |-> 0, sources_ingested |-> 0,
     sources_skipped_unchanged |-> 0, sources_missing |-> 0,
     sources_auto_deactivated |-> 0, usage_events_total |-> 0,
     usage_events_skipped_before_checkpoint |-> 0,
     usage_rows_attempted_insert |-> 0]

----------------------------------------------------------------------------
\* parser.py

\* read_project_metadata: the project_id of line 1, or an error.
ReadProjectMetadata(file) ==
    IF file = NONE \/ file.project_id = NULL
    THEN [err |-> "MetadataValidationError", project_id |-> NULL]
    ELSE [err |-> NULL, project_id |-> file.project_id]

\* Mutant: only an event of a later timestamp passes the checkpoint.
GeminiPassesLaterTimestamp(event_timestamp, model_code, checkpoint) ==
    event_timestamp > checkpoint.last_event_timestamp

GeminiPassesCheckpoint(event_timestamp, model_code, checkpoint) ==
    IF event_timestamp > checkpoint.last_event_timestamp THEN TRUE
    ELSE /\ event_timestamp = checkpoint.last_event_timestamp
         /\ ModelRank(model_code) >= ModelRank(checkpoint.last_model_code)

\* _parse_required_int on the JSON value v.
ParseRequiredInt(v) ==
    IF v.type = "int" THEN [err |-> NULL, value |-> v.value]
    ELSE [err |-> "ParseError", value |-> 0]

\* seen_event_keys after the line ev.
SeenEventKeys(seen, ev, checkpoint) == seen \cup {EventKey(ev)}

\* One iteration of the loop of parse_usage_jsonl over the usage line ev.
ParseUsageLine(ev, project_id, checkpoint, st) ==
    IF st.err # NULL THEN st
    ELSE
      LET event_key == EventKey(ev)
          counted == [st EXCEPT !.usage_events_total = @ + 1]
      IN
      IF event_key \in st.seen_event_keys
      THEN [counted EXCEPT !.err = "DuplicateEventError"]
      ELSE
        LET keyed == [counted EXCEPT
                        !.seen_event_keys = SeenEventKeys(@, ev, checkpoint),
                        !.max_event_key =
                            IF @ = NONE \/ KeyLess(@.key, event_key)
                            THEN [key |-> event_key] ELSE @]
        IN
        IF checkpoint # NONE /\ ~GeminiPassesCheckpoint(ev.ts, ev.model, checkpoint)
        THEN [keyed EXCEPT !.usage_events_skipped_before_checkpoint = @ + 1]
        ELSE
          LET n == ParseRequiredInt(ev.tok) IN
          IF n.err # NULL THEN [keyed EXCEPT !.err = n.err]
          ELSE [keyed EXCEPT !.usage_rows = Append(@,
                   [project_id |-> project_id, event_timestamp |-> ev.ts,
                    model_code |-> ev.model, total_tokens |-> n.value])]

RECURSIVE ParseUsageLines(_, _, _, _, _)
ParseUsageLines(events, i, project_id, checkpoint, st) ==
    IF i > Len(events) THEN st
    ELSE ParseUsageLines(events, i + 1, project_id, checkpoint,
                         ParseUsageLine(events[i], project_id, checkpoint, st))

\* The mutant of the append-only check: it is never made.
AppendOnlyNeverViolated(checkpoint, max_event_key) == FALSE

\* The check after the loop of parse_usage_jsonl.
AppendOnlyViolated(checkpoint, max_event_key) ==
    /\ checkpoint # NONE
    /\ \/ max_event_key = NONE
       \/ KeyLess(max_event_key.key,
                  <<checkpoint.last_event_timestamp, checkpoint.last_model_code>>)

\* What parse_usage_jsonl does with the state st its loop ends in.
ParseUsageEnd(checkpoint, st) ==
    IF st.err # NULL THEN st
    ELSE IF AppendOnlyViolated(checkpoint, st.max_event_key)
    THEN [st EXCEPT !.err = "AppendOnlyViolationError"]
    ELSE st

ParseUsageJsonl(file, expected_project_id, checkpoint) ==
    LET metadata == ReadProjectMetadata(file)
        st0 == [err |-> NULL, usage_rows |-> <<>>, usage_events_total |-> 0,
                usage_events_skipped_before_checkpoint |-> 0,
                max_event_key |-> NONE, seen_event_keys |-> {}]
    IN
    IF metadata.err # NULL THEN [st0 EXCEPT !.err = metadata.err]
    ELSE IF metadata.project_id # expected_project_id
    THEN [st0 EXCEPT !.err = "MetadataValidationError"]
    ELSE
      ParseUsageEnd(checkpoint,
          ParseUsageLines(file.events, 1, metadata.project_id, checkpoint, st0))

----------------------------------------------------------------------------
\* repository.py (gemini)

GetSourceByPath(sources, jsonl_file_path) ==
    IF \E r \in sources : r.jsonl_file_path = jsonl_file_path
    THEN CHOOSE r \in sources : r.jsonl_file_path = jsonl_file_path
    ELSE NONE

GetSourceByProjectId(sources, project_id) ==
    IF \E r \in sources : r.project_id = project_id
    THEN CHOOSE r \in sources : r.project_id = project_id
    ELSE NONE

\* ORDER BY jsonl_file_path over the paths of the model.
PathRank(p) == IF p = GeminiPathA THEN 1 ELSE 2

RECURSIVE SortedByPath(_)
SortedByPath(rows) ==
    IF rows = {} THEN <<>>
    ELSE LET first == CHOOSE r \in rows :
                        \A q \in rows : PathRank(r.jsonl_file_path) <= PathRank(q.jsonl_file_path)
         IN  <<first>> \o SortedByPath(rows \ {first})

ListActiveSources(sources) == SortedByPath({r \in sources : r.active})

DetectActiveProjectCollisions(sources) ==
    {p \in {r.project_id : r \in sources} :
        Cardinality({r \in sources : r.active /\ r.project_id = p}) > 1}

InsertSource(sources, project_id, jsonl_file_path) ==
    sources \cup {[project_id |-> project_id, jsonl_file_path |-> jsonl_file_path,
                   active |-> TRUE, snapshot |-> NONE, checkpoint |-> NONE]}

SetSourceActive(sources, project_id, active) ==
    {IF r.project_id = project_id THEN [r EXCEPT !.active = active] ELSE r : r \in sources}

\* Mutant: the move forgets the checkpoint of the source.
UpdateSourcePathAndReset(sources, project_id, jsonl_file_path) ==
    {IF r.project_id = project_id
     THEN [r EXCEPT !.jsonl_file_path = jsonl_file_path, !.checkpoint = NONE]
     ELSE r : r \in sources}

UpdateSourcePath(sources, project_id, jsonl_file_path) ==
    {IF r.project_id = project_id THEN [r EXCEPT !.jsonl_file_path = jsonl_file_path] ELSE r
        : r \in sources}

\* INSERT ... ON CONFLICT (project_id, event_timestamp, model_code) DO NOTHING
RECURSIVE InsertUsageEvents(_, _, _)
InsertUsageEvents(events, rows, i) ==
    IF i > Len(rows) THEN events
    ELSE LET row == rows[i]
             taken == \E e \in events :
                         /\ e.project_id = row.project_id
                         /\ e.event_timestamp = row.event_timestamp
                         /\ e.model_code = row.model_code
         IN  InsertUsageEvents(IF taken THEN events ELSE events \cup {row}, rows, i + 1)

UpdateSourceBookkeeping(sources, project_id, file_state, checkpoint) ==
    {IF r.project_id = project_id
     THEN [r EXCEPT !.snapshot = [file_size_bytes |-> file_state.file_size_bytes,
                                  file_mtime |-> file_state.file_mtime],
                    !.checkpoint = checkpoint]
     ELSE r : r \in sources}

----------------------------------------------------------------------------
\* service.py (gemini)

\* The file size counts one unit for the metadata line and one per usage line.
GeminiBuildFileState(jsonl_file_path, file) ==
    [jsonl_file_path |-> jsonl_file_path,
     file_size_bytes |-> 1 + Len(file.events),
     file_mtime |-> file.mtime]

\* The mutant of _file_state_matches: the stored snapshot is never trusted.
GeminiFileStateNeverMatches(source, file_state) == FALSE

GeminiFileStateMatches(source, file_state) ==
    IF source.snapshot = NONE THEN FALSE
    ELSE /\ source.snapshot.file_size_bytes = file_state.file_size_bytes
         /\ source.snapshot.file_mtime = file_state.file_mtime

ResolveCheckpoint(existing_checkpoint, parsed_max_event_key) ==
    IF parsed_max_event_key = NONE THEN existing_checkpoint
    ELSE LET parsed_checkpoint ==
                 [last_event_timestamp |-> parsed_max_event_key.key[1],
                  last_model_code |-> parsed_max_event_key.key[2]]
         IN  IF existing_checkpoint = NONE THEN parsed_checkpoint
             ELSE IF KeyLess(<<existing_checkpoint.last_event_timestamp,
                               existing_checkpoint.last_model_code>>,
                             parsed_max_event_key.key)
                  THEN parsed_checkpoint
                  ELSE existing_checkpoint

\* Mutant: the old path is never looked at.
OldPathNeverValidForProject(files, path, project_id) == FALSE

OldPathStillValidForProject(files, path, project_id) ==
    /\ files[path] # NONE
    /\ ReadProjectMetadata(files[path]).err = NULL
    /\ ReadProjectMetadata(files[path]).project_id = project_id

\* Mutant: the tracked path is not compared with the metadata of the file.
PathNeverMapsToOtherProject(source_by_path, metadata) == FALSE

\* The first test of _reconcile_source.
PathMapsToOtherProject(source_by_path, metadata) ==
    source_by_path # NONE /\ source_by_path.project_id # metadata.project_id

\* Mutant: the new path is registered as one more row of the project.
HandleProjectPathMoveByInsert(sources, files, existing_source, new_path, confirm) ==
    [err |-> NULL,
     sources |-> InsertSource(sources, existing_source.project_id, new_path),
     asked |-> {}]

\* _handle_project_path_move: [err, sources, asked]; asked holds the
\* confirmation callbacks that were invoked.
HandleProjectPathMove(sources, files, existing_source, new_path, confirm) ==
    IF /\ existing_source.jsonl_file_path # new_path
       /\ OldPathStillValidForProject(files, existing_source.jsonl_file_path,
                                      existing_source.project_id)
    THEN [err |-> "SourceConflictError", sources |-> sources, asked |-> {}]
    ELSE IF ~confirm.project_path_move
    THEN [err |-> "ConfirmationDeclinedError", sources |-> sources,
          asked |-> {"project_path_move"}]
    ELSE [err |-> NULL,
          sources |-> UpdateSourcePath(sources, existing_source.project_id, new_path),
          asked |-> {"project_path_move"}]

\* Mutant: an inactive source is made active without asking.
ReactivateSourceUnasked(sources, resolved_source, confirm) ==
    LET updated == SetSourceActive(sources, resolved_source.project_id, TRUE) IN
    [err |-> NULL, sources |-> updated,
     source_row |-> GetSourceByProjectId(updated, resolved_source.project_id),
     asked |-> {}]

\* The reactivation step that ends _reconcile_source.
ReactivateSource(sources, resolved_source, confirm) ==
    IF resolved_source.active
    THEN [err |-> NULL, sources |-> sources, source_row |-> resolved_source,
          asked |-> {}]
    ELSE IF ~confirm.reactivate
    THEN [err |-> "ConfirmationDeclinedError", sources |-> sources,
          source_row |-> NONE, asked |-> {"reactivate"}]
    ELSE LET updated == SetSourceActive(sources, resolved_source.project_id, TRUE) IN
         [err |-> NULL, sources |-> updated,
          source_row |-> GetSourceByProjectId(updated, resolved_source.project_id),
          asked |-> {"reactivate"}]

\* Mutant: a new source is registered whatever confirm_new_source answers.
NewSourceAlwaysConfirmed(confirm) == TRUE

\* The call of the injected confirm_new_source callback.
NewSourceConfirmed(confirm) == confirm.new_source

\* _reconcile_source: [err, sources, source_row, asked].  Each repository call
\* commits on its own: the writes made before an error stay.
ReconcileSource(sources, files, jsonl_file_path, confirm) ==
    LET metadata == ReadProjectMetadata(files[jsonl_file_path])
        failed(e, srcs, asked) ==
            [err |-> e, sources |-> srcs, source_row |-> NONE, asked |-> asked]
        then(asked, r) == [r EXCEPT !.asked = asked \cup @]
    IN
    IF metadata.err # NULL THEN failed(metadata.err, sources, {})
    ELSE
      LET source_by_path == GetSourceByPath(sources, jsonl_file_path)
          source_by_project == GetSourceByProjectId(sources, metadata.project_id)
      IN
      IF PathMapsToOtherProject(source_by_path, metadata)
      THEN failed("SourceConflictError", sources, {})
      ELSE IF source_by_path # NONE
      THEN ReactivateSource(sources, source_by_path, confirm)
      ELSE IF source_by_project # NONE
      THEN LET moved == HandleProjectPathMove(sources, files, source_by_project,
                                              jsonl_file_path, confirm)
           IN  IF moved.err # NULL THEN failed(moved.err, moved.sources, moved.asked)
               ELSE then(moved.asked,
                        ReactivateSource(moved.sources,
                            GetSourceByProjectId(moved.sources,
                                                 source_by_project.project_id),
                            confirm))
      ELSE IF ~NewSourceConfirmed(confirm)
      THEN failed("ConfirmationDeclinedError", sources, {"new_source"})
      ELSE LET inserted == InsertSource(sources, metadata.project_id, jsonl_file_path) IN
           then({"new_source"},
                ReactivateSource(inserted,
                                 GetSourceByProjectId(inserted, metadata.project_id),
                                 confirm))

\* The body of the loop of ingest() over candidate_paths, for one path.  st is
\* the state of the run: [err, sources, events, counters, passes]; a pass
\* records what was done for the path and the database before and after it.
IngestCandidate(st, files, jsonl_file_path, confirm) ==
    IF st.err # NULL THEN st
    ELSE
      LET scanned == [st EXCEPT !.counters.sources_scanned = @ + 1]
          rec == ReconcileSource(st.sources, files, jsonl_file_path, confirm)
          reconciled == [scanned EXCEPT !.sources = rec.sources]
          done(res, outcome, checkpoint, parsed) ==
              [res EXCEPT !.passes = Append(@,
                  [path |-> jsonl_file_path, outcome |-> outcome,
                   checkpoint |-> checkpoint, parsed |-> parsed,
                   asked |-> rec.asked,
                   declined |-> {c \in rec.asked : ~confirm[c]},
                   before |-> [sources |-> st.sources, events |-> st.events],
                   after |-> [sources |-> res.sources, events |-> res.events]])]
      IN
      IF rec.err # NULL
      THEN done([reconciled EXCEPT !.err = rec.err], rec.err, NONE, NONE)
      ELSE IF DetectActiveProjectCollisions(rec.sources) # {}
      THEN done([reconciled EXCEPT !.err = "SourceConflictError"],
                "SourceConflictError", NONE, NONE)
      ELSE
        LET source_row == rec.source_row
            current_state == GeminiBuildFileState(jsonl_file_path, files[jsonl_file_path])
        IN
        IF GeminiFileStateMatches(source_row, current_state)
        THEN done([reconciled EXCEPT !.counters.sources_skipped_unchanged = @ + 1],
                  "skipped_unchanged", source_row.checkpoint, NONE)
        ELSE
          LET parsed == ParseUsageJsonl(files[jsonl_file_path], source_row.project_id,
                                        source_row.checkpoint)
          IN
          IF parsed.err # NULL
          THEN done([reconciled EXCEPT !.err = parsed.err],
                    parsed.err, source_row.checkpoint, parsed)
          ELSE
            LET updated_checkpoint ==
                    ResolveCheckpoint(source_row.checkpoint, parsed.max_event_key)
            IN
            done([reconciled EXCEPT
                    !.events = InsertUsageEvents(@, parsed.usage_rows, 1),
                    !.sources = UpdateSourceBookkeeping(@, source_row.project_id,
                                                        current_state, updated_checkpoint),
                    !.counters.sources_ingested = @ + 1,
                    !.counters.usage_events_total = @ + parsed.usage_events_total,
                    !.counters.usage_events_skipped_before_checkpoint =
                        @ + parsed.usage_events_skipped_before_checkpoint,
                    !.counters.usage_rows_attempted_insert = @ + Len(parsed.usage_rows)],
                 "ingested", source_row.checkpoint, parsed)

RECURSIVE IngestCandidates(_, _, _, _, _)
IngestCandidates(st, files, candidate_paths, i, confirm) ==
    IF i > Len(candidate_paths) THEN st
    ELSE IngestCandidates(IngestCandidate(st, files, candidate_paths[i], confirm),
                          files, candidate_paths, i + 1, confirm)

\* _resolve_input_paths: the paths in order, each once.
RECURSIVE ResolveInputPaths(_, _, _)
ResolveInputPaths(input_paths, i, resolved) ==
    IF i > Len(input_paths) THEN resolved
    ELSE ResolveInputPaths(input_paths, i + 1,
            IF input_paths[i] \in Range(resolved) THEN resolved
            ELSE Append(resolved, input_paths[i]))

\* Mutant: the auto-deactivation loop leaves every source as it is.
AutoDeactivateNothing(sources, counters, files, active_sources, i) ==
    [sources |-> sources, counters |-> counters]

\* The auto-deactivation loop of ingest(): [sources, counters].
RECURSIVE AutoDeactivate(_, _, _, _, _)
AutoDeactivate(sources, counters, files, active_sources, i) ==
    IF i > Len(active_sources) THEN [sources |-> sources, counters |-> counters]
    ELSE IF files[active_sources[i].jsonl_file_path] # NONE
    THEN AutoDeactivate(sources, counters, files, active_sources, i + 1)
    ELSE AutoDeactivate(SetSourceActive(sources, active_sources[i].project_id, FALSE),
                        [counters EXCEPT !.sources_auto_deactivated = @ + 1],
                        files, active_sources, i + 1)

\* The loop of ingest() over active_sources: [candidate_paths, counters].
RECURSIVE AddActiveSources(_, _, _, _, _)
AddActiveSources(candidate_paths, counters, files, active_sources, i) ==
    IF i > Len(active_sources)
    THEN [candidate_paths |-> candidate_paths, counters |-> counters]
    ELSE LET source_path == active_sources[i].jsonl_file_path IN
         IF files[source_path] = NONE
         THEN AddActiveSources(candidate_paths,
                               [counters EXCEPT !.sources_missing = @ + 1],
                               files, active_sources, i + 1)
         ELSE AddActiveSources(IF source_path \in Range(candidate_paths)
                               THEN candidate_paths
                               ELSE Append(candidate_paths, source_path),
                               counters, files, active_sources, i + 1)

\* IngestionService.ingest(): the state of the run when it returns or raises.
GeminiIngestRun(files, db, input_paths, include_all_active, auto_deactivate, confirm) ==
    LET st0 == [err |-> NULL, sources |-> db.sources, events |-> db.events,
                counters |-> GeminiZeroCounters, passes |-> <<>>,
                candidate_paths |-> <<>>]
    IN
    IF DetectActiveProjectCollisions(db.sources) # {}
    THEN [st0 EXCEPT !.err = "SourceConflictError"]
    ELSE IF input_paths = <<>> /\ ~include_all_active
    THEN [st0 EXCEPT !.err = "PathResolutionError"]
    ELSE IF \E i \in DOMAIN input_paths : files[input_paths[i]] = NONE
    THEN [st0 EXCEPT !.err = "PathResolutionError"]
    ELSE
      LET positional == ResolveInputPaths(input_paths, 1, <<>>)
          listed == IF include_all_active THEN ListActiveSources(db.sources) ELSE <<>>
          deactivated ==
              IF include_all_active /\ auto_deactivate
              THEN AutoDeactivate(db.sources, GeminiZeroCounters, files, listed, 1)
              ELSE [sources |-> db.sources, counters |-> GeminiZeroCounters]
          active_sources ==
              IF include_all_active /\ auto_deactivate
              THEN ListActiveSources(deactivated.sources)
              ELSE listed
          added == AddActiveSources(positional, deactivated.counters, files,
                                    active_sources, 1)
      IN  IngestCandidates([st0 EXCEPT !.sources = deactivated.sources,
                                       !.counters = added.counters,
                                       !.candidate_paths = added.candidate_paths],
                           files, added.candidate_paths, 1, confirm)

----------------------------------------------------------------------------
\* Gemini actions.

GeminiNoLast == [op |-> "none"]

GeminiInit ==
    /\ gmFiles = [p \in GeminiPaths |->
                    IF p = GeminiPathA
                    THEN [project_id |-> GeminiProject, events |-> <<>>, mtime |-> 0]
                    ELSE NONE]
    /\ gmSources = {}
    /\ gmEvents = {}
    /\ gmCounters = GeminiZeroCounters
    /\ gmLast = GeminiNoLast

\* The timestamp of the last usage line of the file (1 when none).
GeminiLastTs(file) ==
    IF file.events = <<>> THEN 1 ELSE file.events[Len(file.events)].ts

\* Every write to a file moves its modification time forward.
GeminiWritable(p) ==
    /\ gmFiles[p] # NONE
    /\ gmFiles[p].mtime < MaxWrites

\* The CLI appends one api_response line to the telemetry file, stamped with
\* its clock: timestamps never decrease along the file.
GeminiAppend ==
    /\ pipeline = "gemini"
    /\ \E p \in GeminiPaths :
          /\ GeminiWritable(p)
          /\ Len(gmFiles[p].events) < MaxGeminiEvents
          /\ \E ts \in GeminiLastTs(gmFiles[p])..MaxTs, m \in GeminiModels,
                tok \in GeminiTokenValues :
                gmFiles' = [gmFiles EXCEPT
                              ![p].events = Append(@, UsageLine(ts, m, tok)),
                              ![p].mtime = @ + 1]
    /\ gmCounters' = GeminiZeroCounters
    /\ gmLast' = [op |-> "append"]
    /\ UNCHANGED <<pipeline, mdVars, gmSources, gmEvents, cxVars, ocVars>>

\* The modification time of a file changes, its content does not.
GeminiTouch ==
    /\ pipeline = "gemini"
    /\ \E p \in GeminiPaths :
          /\ GeminiWritable(p)
          /\ gmFiles' = [gmFiles EXCEPT ![p].mtime = @ + 1]
    /\ gmCounters' = GeminiZeroCounters
    /\ gmLast' = [op |-> "touch"]
    /\ UNCHANGED <<pipeline, mdVars, gmSources, gmEvents, cxVars, ocVars>>

\* A file is rewritten without its last usage line.
GeminiTruncate ==
    /\ pipeline = "gemini"
    /\ \E p \in GeminiPaths :
          /\ GeminiWritable(p)
          /\ gmFiles[p].events # <<>>
          /\ gmFiles' = [gmFiles EXCEPT
                           ![p].events = SubSeq(@, 1, Len(@) - 1),
                           ![p].mtime = @ + 1]
    /\ gmCounters' = GeminiZeroCounters
    /\ gmLast' = [op |-> "truncate"]
    /\ UNCHANGED <<pipeline, mdVars, gmSources, gmEvents, cxVars, ocVars>>

\* A file is written again with another token count in one of its usage
\* lines, under the same timestamp and model.
GeminiRewrite ==
    /\ pipeline = "gemini"
    /\ \E p \in GeminiPaths :
          /\ GeminiWritable(p)
          /\ \E i \in DOMAIN gmFiles[p].events :
                /\ gmFiles[p].events[i].tok = TokInt
                /\ gmFiles' = [gmFiles EXCEPT ![p].events[i].tok = TokInt2,
                                              ![p].mtime = @ + 1]
    /\ gmCounters' = GeminiZeroCounters
    /\ gmLast' = [op |-> "rewrite"]
    /\ UNCHANGED <<pipeline, mdVars, gmSources, gmEvents, cxVars, ocVars>>

GeminiDb == [sources |-> gmSources, events |-> gmEvents]
GeminiEmptyDb == [sources |-> {}, events |-> {}]

GeminiConfirmAll ==
    [new_source |-> TRUE, reactivate |-> TRUE, project_path_move |-> TRUE]

\* The paths that hold a telemetry file.
GeminiExisting == {p \in GeminiPaths : gmFiles[p] # NONE}

\* The command lines of the model: the positional paths are files that exist
\* (or none), with --all-active and --auto-deactivate; --all-active without
\* --auto-deactivate is run when the file of an active source is missing.
GeminiInvocations ==
    {[input_paths |-> <<p>>, include_all_active |-> FALSE,
      auto_deactivate |-> FALSE] : p \in GeminiExisting}
    \cup (IF GeminiExisting = GeminiPaths
          THEN {[input_paths |-> <<GeminiPathA, GeminiPathB>>,
                 include_all_active |-> FALSE, auto_deactivate |-> FALSE]}
          ELSE {})
    \cup {[input_paths |-> <<>>, include_all_active |-> TRUE, auto_deactivate |-> TRUE],
          [input_paths |-> <<>>, include_all_active |-> FALSE, auto_deactivate |-> FALSE]}
    \cup (IF \E r \in gmSources : r.active /\ gmFiles[r.jsonl_file_path] = NONE
          THEN {[input_paths |-> <<>>, include_all_active |-> TRUE,
                 auto_deactivate |-> FALSE]}
          ELSE {})

\* The answers the confirmation callbacks may give in a run.  A callback may
\* decline where it can be asked: confirm_new_source while the project of a
\* file is not tracked, confirm_reactivate while a source is inactive,
\* confirm_project_path_move while a tracked project has a file at an
\* untracked path.
GeminiConfirmations ==
    LET untracked == \E p \in GeminiExisting :
                        GetSourceByProjectId(gmSources, gmFiles[p].project_id) = NONE
        inactive == \E r \in gmSources : ~r.active
        moved == \E p \in GeminiExisting :
                    /\ GetSourceByPath(gmSources, p) = NONE
                    /\ GetSourceByProjectId(gmSources, gmFiles[p].project_id) # NONE
    IN  {[new_source |-> n, reactivate |-> r, project_path_move |-> m] :
            n \in (IF untracked THEN BOOLEAN ELSE {TRUE}),
            r \in (IF inactive THEN BOOLEAN ELSE {TRUE}),
            m \in (IF moved THEN BOOLEAN ELSE {TRUE})}

\* IngestionService.ingest(input_paths, include_all_active, auto_deactivate)
\* with the answers the confirmation callbacks give in this run.
GeminiIngest ==
    /\ pipeline = "gemini"
    /\ \E inv \in GeminiInvocations, confirm \in GeminiConfirmations :
          \E run \in {GeminiIngestRun(gmFiles, GeminiDb, inv.input_paths,
                                      inv.include_all_active, inv.auto_deactivate,
                                      confirm)} :
              /\ gmSources' = run.sources
              /\ gmEvents' = run.events
              /\ gmCounters' = run.counters
              /\ gmLast' = [op |-> "ingest", err |-> run.err, passes |-> run.passes,
                            input_paths |-> inv.input_paths,
                            include_all_active |-> inv.include_all_active,
                            candidate_paths |-> run.candidate_paths]
    /\ UNCHANGED <<pipeline, mdVars, gmFiles, cxVars, ocVars>>

\* The content and modification time a telemetry file appears with: one
\* well-formed usage line, earlier or later, or one whose token counts are
\* not integers.  A file that is moved keeps its content and its mtime.
GeminiNewFiles ==
    {[events |-> <<UsageLine(1, "flash", TokInt)>>, mtime |-> 0],
     [events |-> <<UsageLine(2, "pro", TokInt)>>, mtime |-> 1],
     [events |-> <<UsageLine(1, "flash", TokStr)>>, mtime |-> 2]}

\* A telemetry file of some project is written at a path that holds none: a
\* new checkout, or a project directory that was moved or copied.
GeminiCreate ==
    /\ pipeline = "gemini"
    /\ \E p \in GeminiPaths, project_id \in GeminiProjects,
          file \in GeminiNewFiles :
          /\ gmFiles[p] = NONE
          /\ gmFiles' = [gmFiles EXCEPT
                           ![p] = [project_id |-> project_id,
                                   events |-> file.events, mtime |-> file.mtime]]
    /\ gmCounters' = GeminiZeroCounters
    /\ gmLast' = [op |-> "create"]
    /\ UNCHANGED <<pipeline, mdVars, gmSources, gmEvents, cxVars, ocVars>>

\* A telemetry file is deleted or moved away.
GeminiRemove ==
    /\ pipeline = "gemini"
    /\ \E p \in GeminiExisting : gmFiles' = [gmFiles EXCEPT ![p] = NONE]
    /\ gmCounters' = GeminiZeroCounters
    /\ gmLast' = [op |-> "remove"]
    /\ UNCHANGED <<pipeline, mdVars, gmSources, gmEvents, cxVars, ocVars>>

\* The command lines with --all-active: alone or with one positional path
\* that exists, with and without --auto-deactivate.
GeminiAllActiveInvocations ==
    {[input_paths |-> ip, include_all_active |-> TRUE, auto_deactivate |-> a] :
        ip \in {<<>>} \cup {<<p>> : p \in GeminiExisting}, a \in BOOLEAN}

\* IngestionService.ingest(input_paths, include_all_active=True,
\* auto_deactivate) with the answers the confirmation callbacks give.
GeminiIngestAllActive ==
    /\ pipeline = "gemini"
    /\ \E inv \in GeminiAllActiveInvocations, confirm \in GeminiConfirmations :
          \E run \in {GeminiIngestRun(gmFiles, GeminiDb, inv.input_paths,
                                      inv.include_all_active, inv.auto_deactivate,
                                      confirm)} :
              /\ gmSources' = run.sources
              /\ gmEvents' = run.events
              /\ gmCounters' = run.counters
              /\ gmLast' = [op |-> "ingest", err |-> run.err, passes |-> run.passes,
                            input_paths |-> inv.input_paths,
                            include_all_active |-> inv.include_all_active,
                            auto_deactivate |-> inv.auto_deactivate,
                            candidate_paths |-> run.candidate_paths]
    /\ UNCHANGED <<pipeline, mdVars, gmFiles, cxVars, ocVars>>

\* One telemetry file that is appended to, touched and rewritten.
GeminiNext == GeminiAppend \/ GeminiTouch \/ GeminiTruncate \/ GeminiIngest

\* Telemetry files of two projects that appear at and vanish from two paths.
GeminiSourcesNext == GeminiCreate \/ GeminiRemove \/ GeminiIngest

(***************************************************************************)
(* OPENCODE: opencode_token_usage/ingestion                                *)
(***************************************************************************)

\* Message ids of the source, in the order of their strings: "m1" < "m2" < ...
OpencodeIds == 1..MaxMessages
OpencodeSession ==
    [session_id |-> "s1", project_id |-> "proj1", project_worktree |-> "/w",
     session_title |-> "title", session_directory |-> "/w", session_version |-> "1"]

\* tokens.input of a message payload: an integer or a string.
OpencodeTokenValues ==
    {[type |-> "int", value |-> 1], [type |-> "int", value |-> 2], [type |-> "str"]}

OpencodeZeroCounters ==
    [messages_scanned |-> 0, messages_ingested |-> 0, sessions_upserted |-> 0,
     batches_flushed |-> 0, skipped_no_source_changes |-> FALSE]

\* Order of (time_updated, id) tuples.
CursorLess(a, b) == a[1] < b[1] \/ (a[1] = b[1] /\ a[2] < b[2])

----------------------------------------------------------------------------
\* source_reader.py

AssistantRows(messages) == {m \in messages : m.role = "assistant"}

GetLatestAssistantTimeUpdatedMs(messages) ==
    IF AssistantRows(messages) = {} THEN NONE
    ELSE [value |-> CHOOSE t \in {m.time_updated : m \in AssistantRows(messages)} :
                      \A m \in AssistantRows(messages) : m.time_updated <= t]

\* The mutant of the order of the read: ORDER BY m.id ASC.
RECURSIVE SortedById(_)
SortedById(rows) ==
    IF rows = {} THEN <<>>
    ELSE LET first == CHOOSE r \in rows : \A q \in rows : r.id <= q.id
         IN  <<first>> \o SortedById(rows \ {first})

\* ORDER BY m.time_updated ASC, m.id ASC
RECURSIVE SortedByCursor(_)
SortedByCursor(rows) ==
    IF rows = {} THEN <<>>
    ELSE LET first == CHOOSE r \in rows : \A q \in rows :
                         r = q \/ CursorLess(<<r.time_updated, r.id>>,
                                             <<q.time_updated, q.id>>)
         IN  <<first>> \o SortedByCursor(rows \ {first})

\* Mutant: the row of the checkpoint itself is selected again.
SelectedFromCheckpoint(m, checkpoint) ==
    \/ checkpoint = NONE
    \/ m.time_updated > checkpoint.last_time_updated_ms
    \/ (m.time_updated = checkpoint.last_time_updated_ms
        /\ m.id >= checkpoint.last_message_id)

\* The WHERE clause of iter_assistant_rows on the checkpoint.
SelectedByCheckpoint(m, checkpoint) ==
    \/ checkpoint = NONE
    \/ m.time_updated > checkpoint.last_time_updated_ms
    \/ (m.time_updated = checkpoint.last_time_updated_ms
        /\ m.id > checkpoint.last_message_id)

\* iter_assistant_rows: the message rows joined with their session.
IterAssistantRows(messages, sessions, checkpoint) ==
    SortedByCursor({m \in AssistantRows(messages) :
                      /\ \E s \in sessions : s.session_id = m.session_id
                      /\ SelectedByCheckpoint(m, checkpoint)})

----------------------------------------------------------------------------
\* repository.py (opencode)

GetCheckpoint(usage) ==
    IF usage = {} THEN NONE
    ELSE LET top == CHOOSE r \in usage : \A q \in usage :
                       r = q \/ CursorLess(<<q.source_time_updated_ms, q.message_id>>,
                                           <<r.source_time_updated_ms, r.message_id>>)
         IN  [last_time_updated_ms |-> top.source_time_updated_ms,
              last_message_id |-> top.message_id]

\* INSERT ... ON CONFLICT (session_id) DO UPDATE
UpsertSessions(stored, rows) ==
    {r \in stored : \A n \in rows : n.session_id # r.session_id} \cup rows

\* Mutant: the table is replaced by the rows of the batch.
ReplaceMessageUsage(usage, rows, i) == Range(rows)

\* Mutant: ON CONFLICT (message_id) DO NOTHING, the stored row is kept.
RECURSIVE InsertMessageUsageIfAbsent(_, _, _)
InsertMessageUsageIfAbsent(usage, rows, i) ==
    IF i > Len(rows) THEN usage
    ELSE InsertMessageUsageIfAbsent(
             IF \E r \in usage : r.message_id = rows[i].message_id
             THEN usage ELSE usage \cup {rows[i]},
             rows, i + 1)

\* INSERT ... ON CONFLICT (message_id) DO UPDATE; a later row of the batch
\* replaces an earlier one with the same message_id.
RECURSIVE UpsertMessageUsage(_, _, _)
UpsertMessageUsage(usage, rows, i) ==
    IF i > Len(rows) THEN usage
    ELSE UpsertMessageUsage(
             {r \in usage : r.message_id # rows[i].message_id} \cup {rows[i]},
             rows, i + 1)

----------------------------------------------------------------------------
\* service.py (opencode)

\* _require_int on tokens.input.
RequireInt(v) ==
    IF v.type = "int" THEN [err |-> NULL, value |-> v.value]
    ELSE [err |-> "ParseError", value |-> 0]

\* _parse_source_row: [err, session_row, usage_row].
ParseSourceRow(source_row, sessions) ==
    LET input_tokens == RequireInt(source_row.tokens)
        session == CHOOSE s \in sessions : s.session_id = source_row.session_id
    IN  IF source_row.role # "assistant" \/ input_tokens.err # NULL
        THEN [err |-> "ParseError", session_row |-> NONE, usage_row |-> NONE]
        ELSE [err |-> NULL,
              session_row |-> session,
              usage_row |-> [message_id |-> source_row.id,
                             session_id |-> source_row.session_id,
                             project_id |-> session.project_id,
                             input_tokens |-> input_tokens.value,
                             source_time_updated_ms |-> source_row.time_updated]]

\* _flush_batch and the counters that follow it.
FlushBatch(st) ==
    [st EXCEPT !.sessions = UpsertSessions(@, st.sessions_by_id),
               !.usage = UpsertMessageUsage(@, st.usage_batch, 1),
               !.counters.batches_flushed = @ + 1,
               !.counters.sessions_upserted = @ + Cardinality(st.sessions_by_id),
               !.counters.messages_ingested = @ + Len(st.usage_batch),
               !.flushed = Append(@, st.usage_batch),
               !.sessions_by_id = {},
               !.usage_batch = <<>>]

\* The loop of ingest() over source_rows.
RECURSIVE IngestRows(_, _, _, _, _)
IngestRows(st, source_rows, i, src_sessions, batch_size) ==
    IF st.err # NULL \/ i > Len(source_rows) THEN st
    ELSE
      LET scanned == [st EXCEPT !.counters.messages_scanned = @ + 1]
          parsed == ParseSourceRow(source_rows[i], src_sessions)
      IN
      IF parsed.err # NULL
      THEN [scanned EXCEPT !.err = parsed.err]
      ELSE
        LET batched ==
                [scanned EXCEPT
                   !.sessions_by_id =
                       {r \in @ : r.session_id # parsed.session_row.session_id}
                       \cup {parsed.session_row},
                   !.usage_batch = Append(@, parsed.usage_row)]
        IN  IngestRows(IF Len(batched.usage_batch) >= batch_size
                       THEN FlushBatch(batched) ELSE batched,
                       source_rows, i + 1, src_sessions, batch_size)

\* Mutant: the run also skips when the source is level with the checkpoint.
NoSourceChangesOrLevel(source_max, checkpoint) ==
    source_max = NONE \/ source_max.value <= checkpoint.last_time_updated_ms

\* The test of ingest() that sets skipped_no_source_changes.
NoSourceChanges(source_max, checkpoint) ==
    source_max = NONE \/ source_max.value < checkpoint.last_time_updated_ms

\* IngestionService.ingest(full_refresh): the state of the run when it returns
\* or raises.
OpencodeIngestRun(source, db, full_refresh, batch_size) ==
    LET checkpoint == IF full_refresh THEN NONE ELSE GetCheckpoint(db.usage)
        st0 == [err |-> NULL, usage |-> db.usage, sessions |-> db.sessions,
                counters |-> OpencodeZeroCounters, sessions_by_id |-> {},
                usage_batch |-> <<>>, flushed |-> <<>>, checkpoint |-> checkpoint,
                source_rows |-> <<>>]
        source_max == GetLatestAssistantTimeUpdatedMs(source.messages)
    IN
    IF /\ ~full_refresh
       /\ checkpoint # NONE
       /\ NoSourceChanges(source_max, checkpoint)
    THEN [st0 EXCEPT !.counters.skipped_no_source_changes = TRUE]
    ELSE
      LET source_rows == IterAssistantRows(source.messages, source.sessions, checkpoint)
          looped == IngestRows([st0 EXCEPT !.source_rows = source_rows],
                               source_rows, 1, source.sessions, batch_size)
      IN  IF looped.err = NULL /\ looped.usage_batch # <<>>
          THEN FlushBatch(looped)
          ELSE looped

----------------------------------------------------------------------------
\* Opencode actions.

OpencodeNoLast == [op |-> "none"]

OpencodeInit ==
    /\ ocMessages = {}
    /\ ocNow = 1
    /\ ocUsage = {}
    /\ ocSessions = {}
    /\ ocCounters = OpencodeZeroCounters
    /\ ocLast = OpencodeNoLast

\* The source database: tables message and session (joined with project).
OpencodeSource == [messages |-> ocMessages, sessions |-> {OpencodeSession}]
OpencodeDb == [usage |-> ocUsage, sessions |-> ocSessions]
OpencodeEmptyDb == [usage |-> {}, sessions |-> {}]

\* The id OpenCode gives its next message: ids ascend in the order of
\* creation and none is used twice.
OpencodeNextId ==
    IF ocMessages = {} THEN 1
    ELSE 1 + CHOOSE id \in {m.id : m \in ocMessages} :
                 \A m \in ocMessages : m.id <= id

\* OpenCode writes a new message, stamped with its clock; ids ascend in the
\* order of creation.  A user message carries no token counts.
OpencodeInsert ==
    /\ pipeline = "opencode"
    /\ OpencodeNextId \in OpencodeIds
    /\ \E role \in {"assistant", "user"}, tok \in OpencodeTokenValues :
          /\ role = "user" => tok = [type |-> "str"]
          /\ ocMessages' = ocMessages \cup
                {[id |-> OpencodeNextId, session_id |-> "s1",
                  role |-> role, time_created |-> ocNow, time_updated |-> ocNow,
                  tokens |-> tok]}
    /\ ocCounters' = OpencodeZeroCounters
    /\ ocLast' = [op |-> "insert"]
    /\ UNCHANGED <<pipeline, mdVars, ocNow, ocUsage, ocSessions, cxVars, gmVars>>

\* OpenCode rewrites the payload of an assistant message and stamps the row
\* with its clock.
OpencodeUpdate ==
    /\ pipeline = "opencode"
    /\ \E m \in AssistantRows(ocMessages), tok \in OpencodeTokenValues :
          /\ tok # m.tokens
          /\ ocMessages' = (ocMessages \ {m}) \cup
                {[m EXCEPT !.tokens = tok, !.time_updated = ocNow]}
    /\ ocCounters' = OpencodeZeroCounters
    /\ ocLast' = [op |-> "update"]
    /\ UNCHANGED <<pipeline, mdVars, ocNow, ocUsage, ocSessions, cxVars, gmVars>>

\* A millisecond passes on the clock of the source.
OpencodeTick ==
    /\ pipeline = "opencode"
    /\ ocNow < MaxClock
    /\ ocNow' = ocNow + 1
    /\ ocCounters' = OpencodeZeroCounters
    /\ ocLast' = [op |-> "tick"]
    /\ UNCHANGED <<pipeline, mdVars, ocMessages, ocUsage, ocSessions, cxVars, gmVars>>

\* IngestionService(batch_size).ingest(full_refresh).
OpencodeIngest ==
    /\ pipeline = "opencode"
    /\ \E full_refresh \in BOOLEAN, batch_size \in 1..MaxBatch :
          \E run \in {OpencodeIngestRun(OpencodeSource, OpencodeDb, full_refresh,
                                        batch_size)} :
              /\ ocUsage' = run.usage
              /\ ocSessions' = run.sessions
              /\ ocCounters' = run.counters
              /\ ocLast' = [op |-> "ingest", err |-> run.err,
                            full_refresh |-> full_refresh, batch_size |-> batch_size,
                            checkpoint |-> run.checkpoint,
                            source_rows |-> run.source_rows, flushed |-> run.flushed]
    /\ UNCHANGED <<pipeline, mdVars, ocMessages, ocNow, cxVars, gmVars>>

OpencodeNext == OpencodeInsert \/ OpencodeUpdate \/ OpencodeTick \/ OpencodeIngest

\* The checkpoints iter_assistant_rows may be given.
OpencodeCheckpoints ==
    {NONE} \cup {[last_time_updated_ms |-> t, last_message_id |-> id] :
                    t \in 1..MaxClock, id \in OpencodeIds}

\* SourceReader.iter_assistant_rows(checkpoint).
OpencodeRead ==
    /\ pipeline = "opencode"
    /\ \E checkpoint \in OpencodeCheckpoints :
          ocLast' = [op |-> "read", checkpoint |-> checkpoint,
                     source_rows |-> IterAssistantRows(ocMessages,
                                                       OpencodeSource.sessions,
                                                       checkpoint)]
    /\ UNCHANGED <<pipeline, mdVars, ocMessages, ocNow, ocUsage, ocSessions, ocCounters,
                   cxVars, gmVars>>

\* OpenCode deletes a message (a session is reverted); the message with the
\* greatest id stays, so that no id is given out again.
OpencodeDelete ==
    /\ pipeline = "opencode"
    /\ \E m \in ocMessages :
          /\ m.id + 1 # OpencodeNextId
          /\ ocMessages' = ocMessages \ {m}
    /\ ocCounters' = OpencodeZeroCounters
    /\ ocLast' = [op |-> "delete"]
    /\ UNCHANGED <<pipeline, mdVars, ocNow, ocUsage, ocSessions, cxVars, gmVars>>

\* A source in which messages are written, rewritten and deleted.
OpencodeDeletesNext ==
    OpencodeInsert \/ OpencodeUpdate \/ OpencodeTick \/ OpencodeDelete
    \/ OpencodeIngest

\* A source that is written to and read from any checkpoint.
OpencodeReaderNext ==
    OpencodeInsert \/ OpencodeUpdate \/ OpencodeTick \/ OpencodeRead

(***************************************************************************)
(* GEMINI PREPROCESSING: gemini_token_usage/preprocessing/metadata.py      *)
(***************************************************************************)

PROJECT_METADATA_RECORD_TYPE == "gemini_cli.project_metadata"
PROJECT_METADATA_SCHEMA_VERSION == 1

\* A JSON string that spells the UUID uuid: in the form str(UUID) writes
\* ("canonical") or in another form UUID() reads ("upper").
UuidText(uuid, form) == [json |-> "str", form |-> form, uuid |-> uuid]

\* A JSON string that spells no UUID, and a project_id that is no string.
InvalidUuidText == [json |-> "str", form |-> "invalid"]
NotText == [json |-> "int"]

\* str(metadata.project_id)
FormatUuid(uuid) == UuidText(uuid, "canonical")

\* UUID(project_id_value): [err, uuid].
ParseUuid(text) ==
    IF text.form = "invalid" THEN [err |-> "ValueError", uuid |-> NULL]
    ELSE [err |-> NULL, uuid |-> text.uuid]

\* Lines of the file: a JSON object with a record_type key, an ordinary
\* event (an object without that key), a line that is not JSON and a JSON
\* value that is not an object.
MetadataObject(record_type, schema_version, project_id) ==
    [kind |-> "object", record_type |-> record_type,
     schema_version |-> schema_version, project_id |-> project_id]
EventObject(n) == [kind |-> "object", event |-> n]
NotJson == [kind |-> "malformed"]
NotObject == [kind |-> "array"]

\* build_metadata_line
BuildMetadataLine(project_id) ==
    MetadataObject(PROJECT_METADATA_RECORD_TYPE, PROJECT_METADATA_SCHEMA_VERSION,
                   FormatUuid(project_id))

\* _read_first_line: NONE for an empty file.
ReadFirstLine(file) == IF file.lines = <<>> THEN NONE ELSE [line |-> file.lines[1]]

\* _parse_first_line_as_object: the error it raises, if any.
ParseFirstLineAsObject(first_line) ==
    IF first_line.kind = "object" THEN NULL ELSE "ValueError"

\* _parse_metadata_object: [err, project_id].
ParseMetadataObject(parsed) ==
    IF "record_type" \notin DOMAIN parsed
          \/ parsed.record_type # PROJECT_METADATA_RECORD_TYPE
    THEN [err |-> "ValueError", project_id |-> NULL]
    ELSE IF parsed.schema_version # PROJECT_METADATA_SCHEMA_VERSION
    THEN [err |-> "ValueError", project_id |-> NULL]
    ELSE IF parsed.project_id.json # "str"
    THEN [err |-> "ValueError", project_id |-> NULL]
    ELSE [err |-> ParseUuid(parsed.project_id).err,
          project_id |-> ParseUuid(parsed.project_id).uuid]

\* Mutant: the metadata line takes the place of the first line.
RewriteOverFirstLine(file, temp, project_id) ==
    IF temp THEN [err |-> "ValueError", file |-> file]
    ELSE [err |-> NULL,
          file |-> [lines |-> <<BuildMetadataLine(project_id)>>
                       \o (IF file.lines = <<>> THEN <<>> ELSE Tail(file.lines))]]

\* _rewrite_with_metadata: [err, file].  The temp file it writes takes the
\* place of the file; it refuses to run over a temp file that exists.
RewriteWithMetadata(file, temp, project_id) ==
    IF temp THEN [err |-> "ValueError", file |-> file]
    ELSE [err |-> NULL,
          file |-> [lines |-> <<BuildMetadataLine(project_id)>> \o file.lines]]

\* The two places of ensure_project_metadata_line that call uuid4() and
\* _rewrite_with_metadata.
MintAndRewrite(rewritten, fresh) ==
    [err |-> rewritten.err, file |-> rewritten.file,
     project_id |-> IF rewritten.err = NULL THEN fresh ELSE NULL,
     minted |-> TRUE]

\* ensure_project_metadata_line: [err, file, project_id, minted]; fresh is
\* the id uuid4() returns when it is called.
EnsureProjectMetadataLine(file, temp, fresh) ==
    IF file = NONE
    THEN [err |-> "FileNotFoundError", file |-> file, project_id |-> NULL,
          minted |-> FALSE]
    ELSE IF ReadFirstLine(file) = NONE
    THEN MintAndRewrite(RewriteWithMetadata(file, temp, fresh), fresh)
    ELSE IF ParseFirstLineAsObject(ReadFirstLine(file).line) # NULL
    THEN [err |-> ParseFirstLineAsObject(ReadFirstLine(file).line), file |-> file,
          project_id |-> NULL, minted |-> FALSE]
    ELSE IF "record_type" \in DOMAIN ReadFirstLine(file).line
    THEN [err |-> ParseMetadataObject(ReadFirstLine(file).line).err, file |-> file,
          project_id |-> ParseMetadataObject(ReadFirstLine(file).line).project_id,
          minted |-> FALSE]
    ELSE MintAndRewrite(RewriteWithMetadata(file, temp, fresh), fresh)

----------------------------------------------------------------------------
\* Preprocessing actions.

\* No preprocessing takes place.
MetadataInit ==
    /\ mdFile = NONE
    /\ mdTemp = FALSE
    /\ mdMinted = 0
    /\ mdLast = [op |-> "none"]
    /\ mdLog = <<>>

\* The files preprocessing may find: none, an empty one, and files whose
\* first line is an ordinary event, valid metadata of project 0 (spelled as
\* str(UUID) spells it, or otherwise), metadata with another record_type,
\* schema_version or project_id, a line that is not JSON, or a JSON array.
MetadataFirstLines ==
    {<<>>, <<EventObject(1)>>, <<NotJson>>, <<NotObject, EventObject(1)>>}
    \cup {<<MetadataObject(PROJECT_METADATA_RECORD_TYPE,
                           PROJECT_METADATA_SCHEMA_VERSION, UuidText(0, form))>>
             : form \in {"canonical", "upper"}}
    \cup {<<MetadataObject("wrong.record", PROJECT_METADATA_SCHEMA_VERSION,
                           UuidText(0, "canonical")), EventObject(1)>>,
          <<MetadataObject(PROJECT_METADATA_RECORD_TYPE, 2,
                           UuidText(0, "canonical"))>>,
          <<MetadataObject(PROJECT_METADATA_RECORD_TYPE,
                           PROJECT_METADATA_SCHEMA_VERSION, InvalidUuidText)>>,
          <<MetadataObject(PROJECT_METADATA_RECORD_TYPE,
                           PROJECT_METADATA_SCHEMA_VERSION, NotText)>>}

MetadataFiles == {NONE} \cup {[lines |-> lines] : lines \in MetadataFirstLines}

InitPreprocess ==
    /\ pipeline = "preprocess"
    /\ CodexInit
    /\ GeminiInit
    /\ OpencodeInit
    /\ mdFile \in MetadataFiles
    /\ mdTemp = FALSE
    /\ mdMinted = 0
    /\ mdLast = [op |-> "none"]
    /\ mdLog = <<>>

\* The CLI appends one event to the file.
MetadataAppend ==
    /\ pipeline = "preprocess"
    /\ mdFile # NONE
    /\ Len(mdFile.lines) < MaxMetaLines
    /\ \E n \in 1..2 : mdFile' = [lines |-> Append(mdFile.lines, EventObject(n))]
    /\ mdLast' = [op |-> "append"]
    /\ UNCHANGED <<pipeline, mdTemp, mdMinted, mdLog, cxVars, gmVars, ocVars>>

\* ensure_project_metadata_line(jsonl_path); again tells that the call
\* follows another call with nothing in between.
MetadataEnsure ==
    /\ pipeline = "preprocess"
    /\ mdMinted < MaxMinted
    /\ \E res \in {EnsureProjectMetadataLine(mdFile, mdTemp, mdMinted + 1)} :
          /\ mdFile' = res.file
          /\ mdMinted' = IF res.minted THEN mdMinted + 1 ELSE mdMinted
          /\ mdLast' = [op |-> "ensure", err |-> res.err,
                        project_id |-> res.project_id,
                        again |-> mdLast.op = "ensure"]
    /\ UNCHANGED <<pipeline, mdTemp, mdLog, cxVars, gmVars, ocVars>>

\* A call that rewrites the file is killed after it has written the temp
\* file and before the temp file takes the place of the file.
MetadataInterrupt ==
    /\ pipeline = "preprocess"
    /\ mdFile # NONE
    /\ ~mdTemp
    /\ EnsureProjectMetadataLine(mdFile, mdTemp, mdMinted + 1).minted
    /\ mdTemp' = TRUE
    /\ mdLast' = [op |-> "interrupt"]
    /\ UNCHANGED <<pipeline, mdFile, mdMinted, mdLog, cxVars, gmVars, ocVars>>

\* The temp file is removed by hand.
MetadataCleanup ==
    /\ pipeline = "preprocess"
    /\ mdTemp
    /\ mdTemp' = FALSE
    /\ mdLast' = [op |-> "cleanup"]
    /\ UNCHANGED <<pipeline, mdFile, mdMinted, mdLog, cxVars, gmVars, ocVars>>

PreprocessNext ==
    MetadataAppend \/ MetadataEnsure \/ MetadataInterrupt \/ MetadataCleanup

(***************************************************************************)
(* GEMINI PREPROCESSING: gemini_token_usage/preprocessing/convert.py       *)
(***************************************************************************)

\* The records of the raw log: seq is the place of the record in the log, ts
\* stands for the text of attributes["event.timestamp"] (texts are compared as
\* str, numbers here in the same order) and name for attributes["event.name"].
\* A record may lack the timestamp.
LogEventNames == {"gemini_cli.api_response", "gemini_cli.config"}

LogRecord(seq, has_timestamp, ts, name) ==
    [seq |-> seq, has_timestamp |-> has_timestamp, ts |-> ts, name |-> name]

\* The line convert_log_file writes for a record.
TelemetryLine(record) == [kind |-> "object", attributes |-> record]

\* The levels of simplify_record the model runs the conversion with.
SimplifyLevels == {0, 1}

\* simplify_record(record, level) for levels 0 and 1: NONE when the record
\* is filtered out.
SimplifyRecord(record, level) ==
    IF level = 0 THEN [record |-> record]
    ELSE IF record.name \notin {"gemini_cli.api_response", "gemini_cli.api_request"}
    THEN NONE
    ELSE [record |-> record]

\* _extract_timestamp: NONE, or the timestamp of the line.
ExtractTimestamp(line) ==
    IF line.kind # "object" THEN NONE
    ELSE IF "attributes" \notin DOMAIN line THEN NONE
    ELSE IF ~line.attributes.has_timestamp THEN NONE
    ELSE [value |-> line.attributes.ts]

\* get_last_timestamp: the timestamp of the last line that has one, read
\* from the end of the file.
RECURSIVE LastTimestampFrom(_, _)
LastTimestampFrom(lines, i) ==
    IF i = 0 THEN NONE
    ELSE IF ExtractTimestamp(lines[i]) # NONE THEN ExtractTimestamp(lines[i])
    ELSE LastTimestampFrom(lines, i - 1)

GetLastTimestamp(file) ==
    IF file = NONE THEN NONE ELSE LastTimestampFrom(file.lines, Len(file.lines))

\* The mutant of the loop body: a record is skipped only when its timestamp
\* is before the last timestamp.
ConvertLogRecordFromLast(record, last_timestamp, simplify_level, st) ==
    IF ~record.has_timestamp THEN st
    ELSE IF last_timestamp # NONE /\ record.ts < last_timestamp.value
    THEN [st EXCEPT !.skipped_count = @ + 1]
    ELSE IF SimplifyRecord(record, simplify_level) = NONE
    THEN [st EXCEPT !.skipped_count = @ + 1]
    ELSE [st EXCEPT
            !.lines = Append(@, TelemetryLine(
                                  SimplifyRecord(record, simplify_level).record)),
            !.converted_count = @ + 1]

\* The body of the loop of convert_log_file for one JSON object of the log;
\* st = [lines, converted_count, skipped_count].
ConvertLogRecord(record, last_timestamp, simplify_level, st) ==
    IF ~record.has_timestamp THEN st
    ELSE IF last_timestamp # NONE /\ record.ts <= last_timestamp.value
    THEN [st EXCEPT !.skipped_count = @ + 1]
    ELSE IF SimplifyRecord(record, simplify_level) = NONE
    THEN [st EXCEPT !.skipped_count = @ + 1]
    ELSE [st EXCEPT
            !.lines = Append(@, TelemetryLine(
                                  SimplifyRecord(record, simplify_level).record)),
            !.converted_count = @ + 1]

\* convert_log_file: the output is opened for appending.
RECURSIVE ConvertLogFile(_, _, _, _, _)
ConvertLogFile(log, i, last_timestamp, simplify_level, st) ==
    IF i > Len(log) THEN st
    ELSE ConvertLogFile(log, i + 1, last_timestamp, simplify_level,
                        ConvertLogRecord(log[i], last_timestamp, simplify_level, st))

\* _initialize_output_file
InitializeOutputFile(fresh) == [lines |-> <<BuildMetadataLine(fresh)>>]

\* run_log_conversion without archiving, on a log that exists:
\* [err, file, minted, converted_count, skipped_count].
RunLogConversion(log, file, temp, fresh, simplify_level) ==
    LET ensured == EnsureProjectMetadataLine(file, temp, fresh)
        start == IF file # NONE THEN ensured.file ELSE InitializeOutputFile(fresh)
        last_timestamp == IF file # NONE THEN GetLastTimestamp(start) ELSE NONE
        converted == ConvertLogFile(log, 1, last_timestamp, simplify_level,
                                    [lines |-> start.lines, converted_count |-> 0,
                                     skipped_count |-> 0])
    IN  IF file # NONE /\ ensured.err # NULL
        THEN [err |-> ensured.err, file |-> file, minted |-> ensured.minted,
              converted_count |-> 0, skipped_count |-> 0]
        ELSE [err |-> NULL, file |-> [lines |-> converted.lines],
              minted |-> (file = NONE \/ ensured.minted),
              converted_count |-> converted.converted_count,
              skipped_count |-> converted.skipped_count]

----------------------------------------------------------------------------
\* Conversion actions.

\* The raw log is empty; the output does not exist or is an empty file.
InitConvert ==
    /\ pipeline = "convert"
    /\ CodexInit
    /\ GeminiInit
    /\ OpencodeInit
    /\ mdFile \in {NONE, [lines |-> <<>>]}
    /\ mdTemp = FALSE
    /\ mdMinted = 0
    /\ mdLast = [op |-> "none"]
    /\ mdLog = <<>>

\* The CLI writes one telemetry record at the end of the raw log.
LogWrite ==
    /\ pipeline = "convert"
    /\ Len(mdLog) < MaxLogLen
    /\ \E has_timestamp \in BOOLEAN, ts \in 0..MaxTs, name \in LogEventNames :
          /\ has_timestamp <=> ts > 0
          /\ mdLog' = Append(mdLog, LogRecord(Len(mdLog) + 1, has_timestamp, ts, name))
    /\ mdLast' = [op |-> "write"]
    /\ UNCHANGED <<pipeline, mdFile, mdTemp, mdMinted, cxVars, gmVars, ocVars>>

\* run_log_conversion(input_file_path, simplify_level=level); again tells
\* that the call follows a call of the same level that returned, with
\* nothing in between.
LogConvert ==
    /\ pipeline = "convert"
    /\ \E level \in SimplifyLevels :
          \E res \in {RunLogConversion(mdLog, mdFile, mdTemp, mdMinted + 1, level)} :
              /\ mdFile' = res.file
              /\ mdMinted' = IF res.minted THEN mdMinted + 1 ELSE mdMinted
              /\ mdLast' = [op |-> "convert", err |-> res.err, level |-> level,
                            converted_count |-> res.converted_count,
                            skipped_count |-> res.skipped_count,
                            again |-> /\ mdLast.op = "convert"
                                      /\ mdLast.err = NULL
                                      /\ mdLast.level = level]
    /\ UNCHANGED <<pipeline, mdTemp, mdLog, cxVars, gmVars, ocVars>>

ConvertNext == LogWrite \/ LogConvert

----------------------------------------------------------------------------
Init ==
    /\ pipeline \in {"codex", "gemini", "opencode"}
    /\ CodexInit
    /\ GeminiInit
    /\ OpencodeInit
    /\ MetadataInit

Next == CodexNext \/ GeminiNext \/ OpencodeNext

Spec == Init /\ [][Next]_vars

InitCodex == pipeline = "codex" /\ Init

SpecCodex == InitCodex /\ [][CodexNext]_vars

SpecCodexBatch == InitCodex /\ [][CodexBatchNext]_vars

\* A session log that starts with its session_meta alone, is written to and
\* parsed.
InitCodexParser ==
    /\ pipeline = "codex"
    /\ cxFile = <<MetaLine(CodexSession)>>
    /\ cxMtime = 0
    /\ cxDetails = {}
    /\ cxMeta = {}
    /\ cxFileState = {}
    /\ cxCounters = ZeroCounters
    /\ cxLast = NoLast
    /\ cxDir = [p \in CodexOtherPaths |-> NONE]
    /\ cxRun = <<>>
    /\ GeminiInit
    /\ OpencodeInit
    /\ MetadataInit

CodexParserNext == CodexWrite \/ CodexParse

SpecCodexParser == InitCodexParser /\ [][CodexParserNext]_vars

InitGemini == pipeline = "gemini" /\ Init

SpecGemini == InitGemini /\ [][GeminiNext]_vars

InitOpencode == pipeline = "opencode" /\ Init

SpecOpencode == InitOpencode /\ [][OpencodeNext]_vars

SpecOpencodeReader == InitOpencode /\ [][OpencodeReaderNext]_vars

SpecOpencodeDeletes == InitOpencode /\ [][OpencodeDeletesNext]_vars

SpecPreprocess == InitPreprocess /\ [][PreprocessNext]_vars

SpecConvert == InitConvert /\ [][ConvertNext]_vars

\* The telemetry files are only ever appended to or touched.
GeminiAppendOnlyNext == GeminiAppend \/ GeminiTouch \/ GeminiIngest

SpecGeminiAppendOnly == InitGemini /\ [][GeminiAppendOnlyNext]_vars

\* Event logs that are only ever appended to or touched: a log of the size a
\* pass recorded has the content that pass read.
ReparseNext ==
    \/ CodexAppend \/ CodexTouch \/ CodexIngest
    \/ GeminiAppend \/ GeminiTouch \/ GeminiIngest

SpecReparse == Init /\ [][ReparseNext]_vars

SpecGeminiSources == InitGemini /\ [][GeminiSourcesNext]_vars

\* Tracked telemetry files that vanish, ingested with --all-active.
GeminiMissingNext == GeminiCreate \/ GeminiRemove \/ GeminiIngestAllActive

SpecGeminiMissing == InitGemini /\ [][GeminiMissingNext]_vars

\* Event logs in which a stored event comes back with other figures.
RewriteNext ==
    \/ CodexAppend \/ CodexRewrite \/ CodexIngest
    \/ GeminiAppend \/ GeminiRewrite \/ GeminiIngest

SpecRewrite == Init /\ [][RewriteNext]_vars

(***************************************************************************)
(* INTERRUPTED RUNS: an ingest() that is killed, and the ingest() after it *)
(***************************************************************************)

\* Mutant: upsert_file_state commits on its own, before the rows of the pass.
CodexFileStateCommittedFirst(db, run, k) ==
    IF k >= Len(run) THEN (IF k = 0 THEN db ELSE run[k].after)
    ELSE [(IF k = 0 THEN db ELSE run[k].after) EXCEPT !.files = run[k + 1].after.files]

\* The with-block of the codex ingest(): the three writes of a pass commit
\* together or not at all, so a run killed in its pass k + 1 (or, with
\* k = Len(run), before it returns) leaves the database as pass k left it.
CodexCommittedAt(db, run, k) == IF k = 0 THEN db ELSE run[k].after

\* The codex ingest() is killed; expected is the database the run leaves when
\* it is not killed, partial tells that the killed run committed some of its
\* writes and not all of them.
CodexInterrupt ==
    /\ pipeline = "codex"
    /\ \E res \in {CodexIngestFiles(CodexDirectory,
                                    DiscoverSessionFiles(CodexDirectory, CodexPaths), 1,
                                    [db |-> CodexDb, counters |-> ZeroCounters,
                                     run |-> <<>>])} :
         \E k \in 0..Len(res.run) :
            \E db \in {CodexCommittedAt(CodexDb, res.run, k)} :
               /\ cxDetails' = db.details
               /\ cxMeta' = db.meta
               /\ cxFileState' = db.files
               /\ cxLast' = [op |-> "interrupted", expected |-> res.db,
                             partial |-> db # CodexDb /\ db # res.db]
    /\ cxCounters' = ZeroCounters
    /\ cxRun' = <<>>
    /\ UNCHANGED <<pipeline, mdVars, cxFile, cxMtime, cxDir, gmVars, ocVars>>

\* The codex ingest() is run again after a run that was killed, over the
\* same sessions root.
CodexIngestAgain ==
    /\ pipeline = "codex"
    /\ cxLast.op = "interrupted"
    /\ \E res \in {CodexIngestFiles(CodexDirectory,
                                    DiscoverSessionFiles(CodexDirectory, CodexPaths), 1,
                                    [db |-> CodexDb, counters |-> ZeroCounters,
                                     run |-> <<>>])} :
         /\ cxDetails' = res.db.details
         /\ cxMeta' = res.db.meta
         /\ cxFileState' = res.db.files
         /\ cxCounters' = res.counters
         /\ cxRun' = res.run
    /\ cxLast' = [op |-> "again", interrupted |-> CodexDb,
                  expected |-> cxLast.expected, partial |-> cxLast.partial]
    /\ UNCHANGED <<pipeline, mdVars, cxFile, cxMtime, cxDir, gmVars, ocVars>>

\* The source tables a killed _reconcile_source leaves: each of its
\* repository calls (update_source_path, insert_source, set_source_active)
\* commits on its own.
ReconcileCommitted(sources, files, jsonl_file_path, confirm) ==
    LET metadata == ReadProjectMetadata(files[jsonl_file_path]) IN
    {sources, ReconcileSource(sources, files, jsonl_file_path, confirm).sources}
    \cup (IF /\ metadata.err = NULL
             /\ GetSourceByPath(sources, jsonl_file_path) = NONE
             /\ GetSourceByProjectId(sources, metadata.project_id) # NONE
          THEN {HandleProjectPathMove(
                    sources, files,
                    GetSourceByProjectId(sources, metadata.project_id),
                    jsonl_file_path, confirm).sources}
          ELSE {})

\* The source tables a killed auto-deactivation loop leaves.
AutoDeactivateCommitted(sources, files, include_all_active, auto_deactivate) ==
    IF include_all_active /\ auto_deactivate
    THEN {AutoDeactivate(sources, GeminiZeroCounters, files,
                         SubSeq(ListActiveSources(sources), 1, i), 1).sources :
             i \in 0..Len(ListActiveSources(sources))}
    ELSE {sources}

\* The databases a killed gemini ingest() leaves, run being what the call
\* does when it is not killed: the insert of the events and the bookkeeping
\* of a pass commit together, every other write on its own.
GeminiCommitted(files, db, inv, confirm, run) ==
    (IF run.err # NULL /\ run.passes = <<>>
     THEN {db}
     ELSE {[sources |-> s, events |-> db.events] :
              s \in AutoDeactivateCommitted(db.sources, files, inv.include_all_active,
                                            inv.auto_deactivate)})
    \cup {run.passes[k].after : k \in DOMAIN run.passes}
    \cup UNION {{[sources |-> s, events |-> run.passes[k].before.events] :
                    s \in ReconcileCommitted(run.passes[k].before.sources, files,
                                             run.passes[k].path, confirm)} :
                  k \in DOMAIN run.passes}

\* The gemini ingest() is killed.
GeminiInterrupt ==
    /\ pipeline = "gemini"
    /\ \E inv \in GeminiInvocations, confirm \in GeminiConfirmations :
          \E run \in {GeminiIngestRun(gmFiles, GeminiDb, inv.input_paths,
                                      inv.include_all_active, inv.auto_deactivate,
                                      confirm)} :
             \E db \in GeminiCommitted(gmFiles, GeminiDb, inv, confirm, run) :
                /\ gmSources' = db.sources
                /\ gmEvents' = db.events
                /\ gmLast' = [op |-> "interrupted", inv |-> inv, confirm |-> confirm,
                              expected |-> [sources |-> run.sources,
                                            events |-> run.events],
                              partial |-> /\ db # GeminiDb
                                          /\ db # [sources |-> run.sources,
                                                   events |-> run.events]]
    /\ gmCounters' = GeminiZeroCounters
    /\ UNCHANGED <<pipeline, mdVars, gmFiles, cxVars, ocVars>>

\* The same command line is run again after a run that was killed, with the
\* same answers and over the same files.
GeminiIngestAgain ==
    /\ pipeline = "gemini"
    /\ gmLast.op = "interrupted"
    /\ \E run \in {GeminiIngestRun(gmFiles, GeminiDb, gmLast.inv.input_paths,
                                   gmLast.inv.include_all_active,
                                   gmLast.inv.auto_deactivate, gmLast.confirm)} :
          /\ gmSources' = run.sources
          /\ gmEvents' = run.events
          /\ gmCounters' = run.counters
    /\ gmLast' = [op |-> "again", interrupted |-> GeminiDb,
                  expected |-> gmLast.expected, partial |-> gmLast.partial]
    /\ UNCHANGED <<pipeline, mdVars, gmFiles, cxVars, ocVars>>

\* _flush_batch: the database after the first j batches of a run have been
\* committed.
RECURSIVE OpencodeCommittedAt(_, _, _, _)
OpencodeCommittedAt(db, source, flushed, j) ==
    IF j = 0 THEN db
    ELSE [usage |-> UpsertMessageUsage(
                        OpencodeCommittedAt(db, source, flushed, j - 1).usage,
                        flushed[j], 1),
          sessions |-> UpsertSessions(
                        OpencodeCommittedAt(db, source, flushed, j - 1).sessions,
                        {s \in source.sessions :
                            \E i \in DOMAIN flushed[j] :
                                flushed[j][i].session_id = s.session_id})]

\* The opencode ingest() is killed: the batches flushed so far are
\* committed, the rows of the open batch are not.
OpencodeInterrupt ==
    /\ pipeline = "opencode"
    /\ \E full_refresh \in BOOLEAN, batch_size \in 1..MaxBatch :
          \E run \in {OpencodeIngestRun(OpencodeSource, OpencodeDb, full_refresh,
                                        batch_size)} :
             \E j \in 0..Len(run.flushed) :
                \E db \in {OpencodeCommittedAt(OpencodeDb, OpencodeSource,
                                               run.flushed, j)} :
                   /\ ocUsage' = db.usage
                   /\ ocSessions' = db.sessions
                   /\ ocLast' = [op |-> "interrupted", full_refresh |-> full_refresh,
                                 batch_size |-> batch_size,
                                 expected |-> [usage |-> run.usage,
                                               sessions |-> run.sessions],
                                 partial |-> /\ db # OpencodeDb
                                             /\ db # [usage |-> run.usage,
                                                      sessions |-> run.sessions]]
    /\ ocCounters' = OpencodeZeroCounters
    /\ UNCHANGED <<pipeline, mdVars, ocMessages, ocNow, cxVars, gmVars>>

\* The same ingest() is run again after a run that was killed, over the same
\* source database.
OpencodeIngestAgain ==
    /\ pipeline = "opencode"
    /\ ocLast.op = "interrupted"
    /\ \E run \in {OpencodeIngestRun(OpencodeSource, OpencodeDb, ocLast.full_refresh,
                                     ocLast.batch_size)} :
          /\ ocUsage' = run.usage
          /\ ocSessions' = run.sessions
          /\ ocCounters' = run.counters
    /\ ocLast' = [op |-> "again", interrupted |-> OpencodeDb,
                  expected |-> ocLast.expected, partial |-> ocLast.partial]
    /\ UNCHANGED <<pipeline, mdVars, ocMessages, ocNow, cxVars, gmVars>>

\* No run is under way or was killed: the sources are written to.
NoneInterrupted ==
    /\ cxLast.op # "interrupted"
    /\ gmLast.op # "interrupted"
    /\ ocLast.op # "interrupted"

\* Sources that are written to between runs; every run may be killed, and a
\* killed run is followed by the same run over the same source.
InterruptedNext ==
    \/ NoneInterrupted /\ CodexCreate
    \/ NoneInterrupted /\ CodexAppend
    \/ NoneInterrupted /\ CodexInterrupt
    \/ CodexIngestAgain
    \/ NoneInterrupted /\ GeminiCreate
    \/ NoneInterrupted /\ GeminiRemove
    \/ NoneInterrupted /\ GeminiInterrupt
    \/ GeminiIngestAgain
    \/ NoneInterrupted /\ OpencodeInsert
    \/ NoneInterrupted /\ OpencodeUpdate
    \/ NoneInterrupted /\ OpencodeTick
    \/ NoneInterrupted /\ OpencodeInterrupt
    \/ OpencodeIngestAgain

SpecInterrupted == Init /\ [][InterruptedNext]_vars

(***************************************************************************)
(* CLAIMS                                                                  *)
(***************************************************************************)

\* What the claims about dedupe.py read: the rows the last ingest() handed to
\* dedupe_and_validate_token_rows, described without the loop of the code.
DedupeRan(last) ==
    /\ last.op = "ingest"
    /\ last.outcome \in {"ingested", "DuplicateConflictError",
                         "MonotonicityError", "DeltaConsistencyError"}

\* Positions of the rows that are the first to carry their cumulative total.
FirstIndexes(rows) ==
    {i \in DOMAIN rows :
        \A j \in 1..(i - 1) : Cumulative(rows[j]) # Cumulative(rows[i])}

FirstOccurrences(rows) ==
    LET firsts == FirstIndexes(rows)
        nth(k) == CHOOSE i \in firsts : Cardinality({j \in firsts : j <= i}) = k
    IN  [k \in 1..Cardinality(firsts) |-> rows[nth(k)]]

\* A later row repeats a cumulative total with other token values.
ConflictingDuplicate(rows) ==
    \E i \in FirstIndexes(rows), j \in DOMAIN rows :
        /\ i < j
        /\ Cumulative(rows[i]) = Cumulative(rows[j])
        /\ (rows[i].total_usage # rows[j].total_usage
            \/ rows[i].last_usage # rows[j].last_usage)

\* Adjacent pairs (k-1, k) of d whose cumulative total does not increase, and
\* those with a field whose delta is not the incremental value.
NonIncreasingPairs(d) ==
    {k \in 2..Len(d) : Cumulative(d[k]) <= Cumulative(d[k - 1])}

DeltaMismatchPairs(d) ==
    {k \in 2..Len(d) :
        \E f \in Range(TOKEN_FIELDS) :
            d[k].total_usage[f] - d[k - 1].total_usage[f] # d[k].last_usage[f]}

SetMin(S) == CHOOSE x \in S : \A y \in S : x <= y

\* The pass of the session file failed and is reported under counter name.
CodexFailedAs(last, counters, err, name) ==
    /\ last.outcome = err
    /\ counters[name] = 1
    /\ counters.failed_files = <<CodexPath>>
    /\ counters.files_ingested = 0

CodexDbUnchanged ==
    /\ cxDetails' = cxDetails
    /\ cxMeta' = cxMeta
    /\ cxFileState' = cxFileState

----------------------------------------------------------------------------
\* C5 as stated: whenever the deduplicated rows of the pass hold an adjacent
\* pair whose cumulative total does not strictly increase, the pass fails
\* with MonotonicityError, counted in monotonicity_errors, the file is in
\* failed_files and nothing is committed.
C5_MonotonicityAsStated ==
    [][ (/\ DedupeRan(cxLast')
         /\ ~ConflictingDuplicate(cxLast'.parsed)
         /\ NonIncreasingPairs(FirstOccurrences(cxLast'.parsed)) # {})
        => (/\ CodexFailedAs(cxLast', cxCounters', "MonotonicityError",
                             "monotonicity_errors")
            /\ CodexDbUnchanged) ]_vars

\* C5 amended: such a pass always fails, lists the file in failed_files and
\* commits nothing; it fails with MonotonicityError (monotonicity_errors)
\* unless an adjacent pair before the first non-increasing one fails the delta
\* check, and then with DeltaConsistencyError (delta_consistency_errors).
C5_Monotonicity ==
    [][ (/\ DedupeRan(cxLast')
         /\ ~ConflictingDuplicate(cxLast'.parsed)
         /\ NonIncreasingPairs(FirstOccurrences(cxLast'.parsed)) # {})
        => LET d == FirstOccurrences(cxLast'.parsed)
               m == SetMin(NonIncreasingPairs(d))
           IN  /\ CodexDbUnchanged
               /\ IF \E k \in DeltaMismatchPairs(d) : k < m
                  THEN CodexFailedAs(cxLast', cxCounters', "DeltaConsistencyError",
                                     "delta_consistency_errors")
                       /\ cxCounters'.monotonicity_errors = 0
                  ELSE CodexFailedAs(cxLast', cxCounters', "MonotonicityError",
                                     "monotonicity_errors")
                       /\ cxCounters'.delta_consistency_errors = 0 ]_vars

\* C5 witness: a pass that failed with MonotonicityError on rows that followed
\* a valid pair.
C5_Witness ==
    /\ DedupeRan(cxLast)
    /\ cxLast.outcome = "MonotonicityError"
    /\ cxCounters.monotonicity_errors = 1
    /\ SetMin(NonIncreasingPairs(FirstOccurrences(cxLast.parsed))) = 3

----------------------------------------------------------------------------
\* C6 as stated: any adjacent pair of deduplicated rows with a field whose
\* delta differs from last_usage raises DeltaConsistencyError.
C6_DeltaAsStated ==
    (/\ DedupeRan(cxLast)
     /\ ~ConflictingDuplicate(cxLast.parsed)
     /\ DeltaMismatchPairs(FirstOccurrences(cxLast.parsed)) # {})
    => CodexFailedAs(cxLast, cxCounters, "DeltaConsistencyError",
                     "delta_consistency_errors")

\* C6 amended: a pass whose deduplicated rows hold an adjacent pair with a
\* delta mismatch in any of the five fields fails and commits nothing: with
\* DeltaConsistencyError, unless that pair or an earlier one does not increase
\* the cumulative total, and then with MonotonicityError.  A pass that is
\* ingested has no mismatching pair.
C6_DeltaConsistency ==
    [][ (/\ DedupeRan(cxLast')
         /\ ~ConflictingDuplicate(cxLast'.parsed))
        => LET d == FirstOccurrences(cxLast'.parsed) IN
           /\ cxLast'.outcome = "ingested" => DeltaMismatchPairs(d) = {}
           /\ DeltaMismatchPairs(d) # {} =>
                /\ CodexDbUnchanged
                /\ IF \E k \in NonIncreasingPairs(d) : k <= SetMin(DeltaMismatchPairs(d))
                   THEN CodexFailedAs(cxLast', cxCounters', "MonotonicityError",
                                      "monotonicity_errors")
                   ELSE CodexFailedAs(cxLast', cxCounters', "DeltaConsistencyError",
                                      "delta_consistency_errors") ]_vars

\* C6 witness: a pass that failed with DeltaConsistencyError on increasing
\* cumulative totals.
C6_Witness ==
    /\ DedupeRan(cxLast)
    /\ cxLast.outcome = "DeltaConsistencyError"
    /\ cxCounters.delta_consistency_errors = 1
    /\ NonIncreasingPairs(FirstOccurrences(cxLast.parsed)) = {}

----------------------------------------------------------------------------
----------------------------------------------------------------------------
\* C8: rows that share the cumulative total and total_usage and differ only
\* in last_usage do not raise: the first is kept and the later one is counted
\* as a duplicate skipped.
C8_LastUsageDuplicateKept ==
    (/\ DedupeRan(cxLast)
     /\ \E i, j \in DOMAIN cxLast.parsed :
           /\ i < j
           /\ cxLast.parsed[i].total_usage = cxLast.parsed[j].total_usage
           /\ cxLast.parsed[i].last_usage # cxLast.parsed[j].last_usage
     /\ \A i, j \in DOMAIN cxLast.parsed :
           Cumulative(cxLast.parsed[i]) = Cumulative(cxLast.parsed[j])
              => cxLast.parsed[i].total_usage = cxLast.parsed[j].total_usage)
    => cxLast.outcome # "DuplicateConflictError"

----------------------------------------------------------------------------
\* One ingest() of the session file into an empty database.
CodexFullIngest(lines) ==
    CodexIngestFile(CodexPath, lines, 0, EmptyDb, ZeroCounters)

DetailKeys(details) ==
    {<<r.session_id, r.total_tokens_cumulative>> : r \in details}

\* C2: when a session file that was ingested has since been extended by
\* appended token events (timestamps never decreasing) and one ingest() of the
\* final file into an empty database succeeds, the next ingest() succeeds too,
\* keeps the stored rows and leaves the session with the keys that the single
\* ingest() stores.
C2_CodexResumable ==
    [][ (/\ cxLast'.op = "ingest"
         /\ \E f \in cxFileState : f.file_size_bytes < Len(cxFile)
         /\ CodexFullIngest(cxFile).last.outcome = "ingested")
        => (/\ cxLast'.outcome = "ingested"
            /\ cxDetails \subseteq cxDetails'
            /\ DetailKeys(cxDetails') = DetailKeys(CodexFullIngest(cxFile).db.details)) ]_vars

----------------------------------------------------------------------------
\* What the claims about the gemini pipeline read.

\* The pass of the last ingest() over path (NONE when the run made none).
GeminiPassOf(last, path) ==
    IF last.op = "ingest" /\ \E i \in DOMAIN last.passes : last.passes[i].path = path
    THEN last.passes[CHOOSE i \in DOMAIN last.passes : last.passes[i].path = path]
    ELSE NONE

\* The pass read the file: the unchanged-skip did not apply and reconciliation
\* handed a source row to parse_usage_jsonl.
GeminiFileRead(pass) == pass # NONE /\ pass.parsed # NONE

GeminiKeys(events) == {EventKey(events[i]) : i \in DOMAIN events}

GeminiDuplicateKeys(events) ==
    \E i, j \in DOMAIN events : i < j /\ EventKey(events[i]) = EventKey(events[j])

CheckpointKey(checkpoint) ==
    <<checkpoint.last_event_timestamp, checkpoint.last_model_code>>

\* Every key of the file orders strictly before the checkpoint.
GeminiTailRegressed(events, checkpoint) ==
    /\ events # <<>>
    /\ \A k \in GeminiKeys(events) : KeyLess(k, CheckpointKey(checkpoint))

\* One ingest() of the telemetry file into an empty database.
GeminiFullIngest(files) ==
    GeminiIngestRun(files, GeminiEmptyDb, <<GeminiPathA>>, FALSE, FALSE, GeminiConfirmAll)

\* Checkpoint and size/mtime snapshot of every tracked source are as before.
GeminiBookkeepingUnchanged ==
    \A r \in gmSources : \E q \in gmSources' :
        /\ q.project_id = r.project_id
        /\ q.checkpoint = r.checkpoint
        /\ q.snapshot = r.snapshot

----------------------------------------------------------------------------
\* C3: when a tracked telemetry file with a stored checkpoint has been
\* extended by appended usage lines and one ingest() of the final file into an
\* empty database succeeds, the next ingest() of the file succeeds and leaves
\* the project with the events that the single ingest() stores.
C3_GeminiResumable ==
    [][ LET src == GetSourceByPath(gmSources, GeminiPathA)
            full == GeminiFullIngest(gmFiles)
        IN  (/\ GeminiPassOf(gmLast', GeminiPathA) # NONE
             /\ src # NONE
             /\ src.checkpoint # NONE
             /\ src.snapshot.file_size_bytes < 1 + Len(gmFiles[GeminiPathA].events)
             /\ full.err = NULL)
            => (/\ gmLast'.err = NULL
                /\ gmEvents' = full.events) ]_vars

----------------------------------------------------------------------------
----------------------------------------------------------------------------
\* Every usage line of the file carries integer token counts.
GeminiWellFormed(events) == \A i \in DOMAIN events : events[i].tok.type = "int"

\* C10: whenever the file read by a pass holds two well-formed usage lines
\* with the same (event_timestamp, model_code) key, before the checkpoint or
\* not, the pass fails with DuplicateEventError and the run leaves the database
\* as it was.
C10_DuplicateKeysFatal ==
    [][ LET pass == GeminiPassOf(gmLast', GeminiPathA) IN
        (/\ GeminiFileRead(pass)
         /\ GeminiWellFormed(gmFiles[GeminiPathA].events)
         /\ GeminiDuplicateKeys(gmFiles[GeminiPathA].events))
        => (/\ gmLast'.err = "DuplicateEventError"
            /\ gmSources' = gmSources
            /\ gmEvents' = gmEvents) ]_vars

----------------------------------------------------------------------------
\* One incremental ingest() of the source database into an empty store.
OpencodeFullIngest(source) == OpencodeIngestRun(source, OpencodeEmptyDb, FALSE, 1)

\* C4: when the store holds a checkpoint, messages have been inserted into or
\* updated in the source and one ingest() of the final source into an empty
\* store succeeds, the next incremental ingest() succeeds and leaves
\* opencode_message_usage with the rows that the single ingest() stores.
C4_OpencodeResumable ==
    [][ LET full == OpencodeFullIngest(OpencodeSource) IN
        (/\ ocLast'.op = "ingest"
         /\ ~ocLast'.full_refresh
         /\ ocUsage # {}
         /\ full.err = NULL)
        => (/\ ocLast'.err = NULL
            /\ ocUsage' = full.usage) ]_vars

----------------------------------------------------------------------------
\* The last step was an ingest() that succeeded on the source of the pipeline;
\* the source has not changed since.
CodexJustIngested ==
    /\ cxLast.op = "ingest"
    /\ cxLast.outcome \in {"ingested", "skipped_unchanged"}

GeminiJustIngested ==
    /\ GeminiPassOf(gmLast, GeminiPathA) # NONE
    /\ gmLast.err = NULL

OpencodeJustIngested ==
    /\ ocLast.op = "ingest"
    /\ ocLast.err = NULL

\* C1: an ingest() that follows a successful ingest() of a source that has not
\* changed leaves the stored event rows and the checkpoint as they were; codex
\* and gemini count the source as skipped unchanged, opencode (without
\* full_refresh) scans and ingests no message.
C1_Idempotent ==
    [][ /\ (CodexJustIngested /\ cxLast'.op = "ingest")
            => (/\ cxDetails' = cxDetails
                /\ GetSessionCheckpoint(cxDetails', CodexSession)
                     = GetSessionCheckpoint(cxDetails, CodexSession)
                /\ cxCounters'.files_skipped_unchanged = 1
                /\ cxCounters'.files_ingested = 0
                /\ cxCounters'.failed_files = <<>>)
        /\ (GeminiJustIngested /\ GeminiPassOf(gmLast', GeminiPathA) # NONE)
            => (/\ gmEvents' = gmEvents
                /\ gmSources' = gmSources
                /\ gmLast'.err = NULL
                /\ gmCounters'.sources_skipped_unchanged = 1
                /\ gmCounters'.sources_ingested = 0)
        /\ (OpencodeJustIngested /\ ocLast'.op = "ingest" /\ ~ocLast'.full_refresh)
            => (/\ ocUsage' = ocUsage
                /\ GetCheckpoint(ocUsage') = GetCheckpoint(ocUsage)
                /\ ocLast'.err = NULL
                /\ ocCounters'.messages_scanned = 0
                /\ ocCounters'.messages_ingested = 0) ]_vars

\* C1 witness: a gemini run that skipped its source as unchanged while the
\* project has stored events and a checkpoint.
C1_Witness ==
    /\ GeminiPassOf(gmLast, GeminiPathA) # NONE
    /\ GeminiPassOf(gmLast, GeminiPathA).outcome = "skipped_unchanged"
    /\ gmCounters.sources_skipped_unchanged = 1
    /\ gmEvents # {}
    /\ \E r \in gmSources : r.checkpoint # NONE

----------------------------------------------------------------------------
\* What the claims about a codex run over several files read.
CodexFileErrors ==
    {"ParseError", "SessionIdentityError", "ModelAttributionError",
     "DuplicateConflictError", "MonotonicityError", "DeltaConsistencyError"}

CodexPassFailed(pass) == pass.last.outcome \in CodexFileErrors

\* The number of passes of run with an outcome in outcomes.
CodexPassCount(run, outcomes) ==
    Cardinality({i \in DOMAIN run : run[i].last.outcome \in outcomes})

CodexRunPaths(run) == [i \in DOMAIN run |-> run[i].path]

\* C11: a pass over a session file that fails with a parse, identity,
\* attribution, duplicate-conflict, monotonicity or delta error leaves
\* codex_session_details, codex_session_metadata and codex_ingestion_files
\* exactly as they were before that file.
C11_CodexAtomicity ==
    \A i \in DOMAIN cxRun :
        CodexPassFailed(cxRun[i]) => cxRun[i].after = cxRun[i].before

\* C11 witness: a run in which a file failed on a database that already held
\* rows, files and metadata, and that kept them.
C11_Witness ==
    \E i \in DOMAIN cxRun :
        /\ CodexPassFailed(cxRun[i])
        /\ cxRun[i].before.details # {}
        /\ cxRun[i].before.files # {}
        /\ cxDetails = cxRun[i].before.details
        /\ cxCounters.failed_files # <<>>

----------------------------------------------------------------------------
\* C14: ingest() visits every discovered session file once, in sorted path
\* order, whatever the earlier files did; each failed file is once in
\* failed_files, in that order, and is counted in the counter of its error;
\* the files that do not fail are ingested or skipped as unchanged; and
\* files_scanned = files_ingested + files_skipped_unchanged + len(failed_files).
C14_CodexFailureIsolation ==
    cxLast.op = "ingest" =>
        LET failed == SelectSeq(cxRun, CodexPassFailed) IN
        /\ Range(CodexRunPaths(cxRun)) = {CodexPath} \cup CodexOtherFiles
        /\ \A i, j \in DOMAIN cxRun :
              i < j => CodexPathRank(cxRun[i].path) < CodexPathRank(cxRun[j].path)
        /\ cxCounters.failed_files = CodexRunPaths(failed)
        /\ cxCounters.monotonicity_errors = CodexPassCount(cxRun, {"MonotonicityError"})
        /\ cxCounters.delta_consistency_errors
              = CodexPassCount(cxRun, {"DeltaConsistencyError"})
        /\ cxCounters.parse_errors
              = CodexPassCount(cxRun, {"ParseError", "SessionIdentityError",
                                       "ModelAttributionError",
                                       "DuplicateConflictError"})
        /\ cxCounters.files_ingested = CodexPassCount(cxRun, {"ingested"})
        /\ cxCounters.files_skipped_unchanged
              = CodexPassCount(cxRun, {"skipped_unchanged"})
        /\ cxCounters.files_scanned = Len(cxRun)
        /\ cxCounters.files_scanned
              = cxCounters.files_ingested + cxCounters.files_skipped_unchanged
                + Len(cxCounters.failed_files)

\* C14 witness: a run over three files in which the first failed and the
\* last was ingested after it.
C14_Witness ==
    /\ cxLast.op = "ingest"
    /\ Len(cxRun) = 3
    /\ CodexPassFailed(cxRun[1])
    /\ cxRun[3].last.outcome = "ingested"
    /\ cxCounters.failed_files # <<>>
    /\ cxCounters.files_ingested >= 1

----------------------------------------------------------------------------
\* What the claims about the reconciliation of gemini sources read.

GeminiPasses == IF gmLast.op = "ingest" THEN Range(gmLast.passes) ELSE {}

GeminiPassFailed(pass) == pass.outcome \notin {"ingested", "skipped_unchanged"}

\* The project_id in the metadata line of the file a pass was made over.
GeminiDeclared(pass) == gmFiles[pass.path].project_id

\* The row of project_id in sources (NONE when it has none).
GeminiRowOf(sources, project_id) == GetSourceByProjectId(sources, project_id)

\* The pass found its project tracked at another path and its own path not
\* tracked.
GeminiPathMoveCase(pass) ==
    /\ GetSourceByPath(pass.before.sources, pass.path) = NONE
    /\ GeminiRowOf(pass.before.sources, GeminiDeclared(pass)) # NONE

\* No two rows share a project_id and no two share a jsonl_file_path.
GeminiSourcesUnique(sources) ==
    \A r, q \in sources :
        (r.project_id = q.project_id \/ r.jsonl_file_path = q.jsonl_file_path)
            => r = q

----------------------------------------------------------------------------
\* C12: a source whose pass fails after discovery is fully rolled back: the
\* rows of gemini_ingestion_sources and of gemini_usage_events are after the
\* pass exactly what they were before it.
C12_GeminiAtomicity ==
    \A pass \in GeminiPasses :
        GeminiPassFailed(pass) => pass.after = pass.before

----------------------------------------------------------------------------
\* C15: in a run over several candidate sources every candidate gets its
\* pass, whatever the passes before it did: a failed source does not end the
\* run.
C15_GeminiFailureIsolation ==
    gmLast.op = "ingest" => Len(gmLast.passes) = Len(gmLast.candidate_paths)

----------------------------------------------------------------------------
\* C16: the stored checkpoint of a project never moves back: in every step
\* the checkpoint of each tracked project stays or is replaced by a key that
\* orders strictly after it, and a pass replaces the checkpoint it found only
\* by the maximum key it parsed.
C16_CheckpointNeverRegresses ==
    [][ /\ \A r \in gmSources : r.checkpoint # NONE =>
              \E q \in gmSources' :
                  /\ q.project_id = r.project_id
                  /\ q.checkpoint # NONE
                  /\ \/ q.checkpoint = r.checkpoint
                     \/ KeyLess(CheckpointKey(r.checkpoint), CheckpointKey(q.checkpoint))
        /\ gmLast'.op = "ingest" =>
              \A i \in DOMAIN gmLast'.passes :
                  LET pass == gmLast'.passes[i]
                      row == GetSourceByPath(pass.after.sources, pass.path)
                  IN  (pass.outcome = "ingested" /\ row.checkpoint # pass.checkpoint)
                          => /\ pass.parsed.max_event_key # NONE
                             /\ CheckpointKey(row.checkpoint) = pass.parsed.max_event_key.key
                             /\ \/ pass.checkpoint = NONE
                                \/ KeyLess(CheckpointKey(pass.checkpoint),
                                           pass.parsed.max_event_key.key) ]_vars

\* C16 witness: a pass that followed a path move replaced a stored checkpoint
\* by a later key.
C16_Witness ==
    \E pass \in GeminiPasses :
        /\ pass.outcome = "ingested"
        /\ "project_path_move" \in pass.asked
        /\ pass.checkpoint # NONE
        /\ KeyLess(CheckpointKey(pass.checkpoint),
                   CheckpointKey(GetSourceByPath(gmSources, pass.path).checkpoint))

----------------------------------------------------------------------------
\* C18: at every moment of every run no two rows of gemini_ingestion_sources
\* share a project_id, no two share a jsonl_file_path, and no project has two
\* active rows.
C18_IdentityUnique ==
    /\ GeminiSourcesUnique(gmSources)
    /\ DetectActiveProjectCollisions(gmSources) = {}
    /\ \A pass \in GeminiPasses :
          /\ GeminiSourcesUnique(pass.after.sources)
          /\ DetectActiveProjectCollisions(pass.after.sources) = {}

\* C18 witness: a project that had been ingested and deactivated is tracked
\* at a new path after a confirmed path move and a reactivation.
C18_Witness ==
    /\ GeminiSourcesUnique(gmSources)
    /\ \E pass \in GeminiPasses :
          /\ {"project_path_move", "reactivate"} \subseteq pass.asked
          /\ pass.declined = {}
          /\ pass.outcome = "ingested"
          /\ \E r \in pass.before.sources :
                r.jsonl_file_path # pass.path /\ r.checkpoint # NONE

----------------------------------------------------------------------------
\* C19: a pass over a path that is tracked under another project_id than the
\* one in the metadata line of its file fails with SourceConflictError, asks
\* no confirmation and changes no stored row.
C19_PathIdentityConflict ==
    \A pass \in GeminiPasses :
        LET source_by_path == GetSourceByPath(pass.before.sources, pass.path) IN
        (source_by_path # NONE /\ source_by_path.project_id # GeminiDeclared(pass))
            => /\ pass.outcome = "SourceConflictError"
               /\ gmLast.err = "SourceConflictError"
               /\ pass.asked = {}
               /\ pass.after = pass.before

\* C19 witness: such a pass, made while the project of the file is tracked
\* too, inactive, at a path that holds no file.
C19_Witness ==
    \E pass \in GeminiPasses :
        LET source_by_path == GetSourceByPath(pass.before.sources, pass.path)
            source_by_project == GeminiRowOf(pass.before.sources, GeminiDeclared(pass))
        IN  /\ source_by_path # NONE
            /\ source_by_path.project_id # GeminiDeclared(pass)
            /\ source_by_project # NONE
            /\ ~source_by_project.active
            /\ pass.outcome = "SourceConflictError"

----------------------------------------------------------------------------
\* C20: when the project of the file is tracked at another path and the path
\* of the file is not tracked, (a) if the old path still holds a file of the
\* project the pass fails with SourceConflictError, asks nothing and the
\* tracked path stays; (b) otherwise confirm_project_path_move is asked, the
\* tracked path becomes the new path if it answers yes, and if it answers no
\* the pass fails with ConfirmationDeclinedError and the tracked path stays.
C20_PathMove ==
    \A pass \in GeminiPasses :
        GeminiPathMoveCase(pass) =>
            LET old == GeminiRowOf(pass.before.sources, GeminiDeclared(pass))
                new == GeminiRowOf(pass.after.sources, GeminiDeclared(pass))
            IN  IF /\ gmFiles[old.jsonl_file_path] # NONE
                   /\ gmFiles[old.jsonl_file_path].project_id = old.project_id
                THEN /\ pass.outcome = "SourceConflictError"
                     /\ pass.asked = {}
                     /\ pass.after = pass.before
                ELSE /\ "project_path_move" \in pass.asked
                     /\ IF "project_path_move" \in pass.declined
                        THEN /\ pass.outcome = "ConfirmationDeclinedError"
                             /\ pass.after = pass.before
                        ELSE new.jsonl_file_path = pass.path
                     /\ new.jsonl_file_path # old.jsonl_file_path
                           => "project_path_move" \notin pass.declined

\* C20 witness: a run that refused a second valid path of a tracked project,
\* after the project had been moved once with confirmation.
C20_Witness ==
    /\ \E pass \in GeminiPasses :
          /\ GeminiPathMoveCase(pass)
          /\ pass.outcome = "SourceConflictError"
          /\ GeminiRowOf(pass.before.sources, GeminiDeclared(pass)).jsonl_file_path
                = GeminiPathB
    /\ gmEvents # {}

----------------------------------------------------------------------------
\* C13: an ingest() that raises ParseError commits no opencode_message_usage
\* and no opencode_sessions row, whatever the batch size and wherever the
\* malformed message stands in the scan order.
C13_OpencodeFailFast ==
    [][ (ocLast'.op = "ingest" /\ ocLast'.err = "ParseError")
        => (ocUsage' = ocUsage /\ ocSessions' = ocSessions) ]_vars

----------------------------------------------------------------------------
----------------------------------------------------------------------------
\* The pass found neither its path nor the project of its file tracked.
GeminiNewSourceCase(pass) ==
    /\ GetSourceByPath(pass.before.sources, pass.path) = NONE
    /\ GeminiRowOf(pass.before.sources, GeminiDeclared(pass)) = NONE

\* C21: a pass over a path and a project that are not tracked asks
\* confirm_new_source; when it answers no the run raises
\* ConfirmationDeclinedError and the pass stores no source row and no usage
\* event; when it answers yes the project is tracked at the path.  A pass
\* adds a row to gemini_ingestion_sources only after confirm_new_source
\* answered yes.
C21_NewSourceConfirmation ==
    \A pass \in GeminiPasses :
        /\ GeminiNewSourceCase(pass) =>
              /\ "new_source" \in pass.asked
              /\ IF "new_source" \in pass.declined
                 THEN /\ pass.outcome = "ConfirmationDeclinedError"
                      /\ gmLast.err = "ConfirmationDeclinedError"
                      /\ pass.after = pass.before
                      /\ GeminiRowOf(gmSources, GeminiDeclared(pass)) = NONE
                      /\ \A e \in gmEvents : e.project_id # GeminiDeclared(pass)
                 ELSE /\ GeminiRowOf(pass.after.sources, GeminiDeclared(pass)) # NONE
                      /\ GeminiRowOf(pass.after.sources, GeminiDeclared(pass)).jsonl_file_path
                            = pass.path
        /\ (\E r \in pass.after.sources :
                \A q \in pass.before.sources : q.project_id # r.project_id)
              => /\ GeminiNewSourceCase(pass)
                 /\ "new_source" \in pass.asked \ pass.declined

\* C21 witness: the registration of a second project was declined while the
\* first one is tracked and holds events.
C21_Witness ==
    /\ gmEvents # {}
    /\ \E pass \in GeminiPasses :
          /\ GeminiNewSourceCase(pass)
          /\ "new_source" \in pass.declined
          /\ pass.outcome = "ConfirmationDeclinedError"
          /\ pass.before.sources # {}

----------------------------------------------------------------------------
\* The row a pass resolves its file to: the row of its path, else the row of
\* the project of its file (NONE when neither is tracked).
GeminiResolvedBefore(pass) ==
    IF GetSourceByPath(pass.before.sources, pass.path) # NONE
    THEN GetSourceByPath(pass.before.sources, pass.path)
    ELSE GeminiRowOf(pass.before.sources, GeminiDeclared(pass))

\* The pass found its file tracked and marked inactive.
GeminiInactiveCase(pass) ==
    /\ GeminiResolvedBefore(pass) # NONE
    /\ GeminiResolvedBefore(pass).project_id = GeminiDeclared(pass)
    /\ ~GeminiResolvedBefore(pass).active

\* The checkpoint and the size/mtime snapshot of a row.
GeminiBookkeeping(row) ==
    [checkpoint |-> row.checkpoint, snapshot |-> row.snapshot]

\* C22: a pass over a tracked source marked inactive stores events, a
\* checkpoint or a snapshot only after confirm_reactivate answered yes in that
\* run, and then the source is active; when it answers no the run raises
\* ConfirmationDeclinedError, the source stays inactive and its events,
\* checkpoint and snapshot are what they were.  A run made with
\* include_all_active alone takes its candidates among the sources that were
\* active when it started, and asks no reactivation.
C22_Reactivation ==
    [][ gmLast'.op = "ingest" =>
          /\ \A i \in DOMAIN gmLast'.passes :
                LET pass == gmLast'.passes[i]
                    old == GeminiResolvedBefore(pass)
                    new == GeminiRowOf(pass.after.sources, GeminiDeclared(pass))
                IN  GeminiInactiveCase(pass) =>
                      /\ (pass.after.events # pass.before.events
                            \/ GeminiBookkeeping(new) # GeminiBookkeeping(old)
                            \/ pass.outcome \in {"ingested", "skipped_unchanged"})
                           => /\ "reactivate" \in pass.asked \ pass.declined
                              /\ new.active
                      /\ "reactivate" \in pass.declined
                           => /\ pass.outcome = "ConfirmationDeclinedError"
                              /\ gmLast'.err = "ConfirmationDeclinedError"
                              /\ ~new.active
                              /\ pass.after.events = pass.before.events
                              /\ GeminiBookkeeping(new) = GeminiBookkeeping(old)
                              /\ gmEvents' = pass.before.events
          /\ (gmLast'.include_all_active /\ gmLast'.input_paths = <<>>) =>
                /\ \A p \in Range(gmLast'.candidate_paths) :
                      \E r \in gmSources : r.jsonl_file_path = p /\ r.active
                /\ \A i \in DOMAIN gmLast'.passes :
                      "reactivate" \notin gmLast'.passes[i].asked ]_vars

\* C22 witness: the reactivation of a source that holds a checkpoint was
\* declined for a file that had changed since its last pass.
C22_Witness ==
    \E pass \in GeminiPasses :
        /\ GeminiInactiveCase(pass)
        /\ "reactivate" \in pass.declined
        /\ GeminiResolvedBefore(pass).checkpoint # NONE
        /\ ~GeminiFileStateMatches(GeminiResolvedBefore(pass),
                GeminiBuildFileState(pass.path, gmFiles[pass.path]))

\* C22 second witness: a run with include_all_active passed over the active
\* source and left the inactive one alone.
C22_WitnessAllActive ==
    /\ gmLast.op = "ingest"
    /\ gmLast.include_all_active
    /\ gmLast.candidate_paths # <<>>
    /\ \E r \in gmSources : ~r.active /\ gmFiles[r.jsonl_file_path] # NONE

----------------------------------------------------------------------------
\* What the claims about parse_session_file read.

CodexParsed == cxLast.op = "parse"

\* The model in force when line i is read: the value of the model key of the
\* last turn_context line before i that has one (NULL when there is none).
CodexActiveModelAt(lines, i) ==
    LET setters == {j \in 1..(i - 1) :
                      lines[j].type = "turn_context" /\ "model" \in DOMAIN lines[j]}
    IN  IF setters = {} THEN NULL
        ELSE lines[CHOOSE j \in setters : \A k \in setters : k <= j].model

\* Line i is a token_count event with info and both snapshots complete.
CodexBothSnapshots(lines, i) ==
    /\ lines[i].type = "token_count"
    /\ "info" \notin DOMAIN lines[i]
    /\ "anomaly" \in DOMAIN lines[i] => lines[i].anomaly.json = "bool"

\* Line i is a token_count event one of whose fields is a string, a float or
\* null.
CodexWrongTyped(lines, i) ==
    /\ lines[i].type = "token_count"
    /\ "anomaly" \in DOMAIN lines[i]
    /\ lines[i].anomaly.json \in {"str", "float", "null"}

\* The token_count lines with both snapshots that are read while no model is
\* in force.
CodexUnattributed(lines) ==
    {i \in DOMAIN lines : /\ CodexBothSnapshots(lines, i)
                          /\ CodexActiveModelAt(lines, i) = NULL
                          /\ \A j \in 1..(i - 1) : ~CodexWrongTyped(lines, j)}

----------------------------------------------------------------------------
\* C23: every row parse_session_file produces carries the model of the last
\* turn_context line before it that has a model key, and the parse raises
\* ModelAttributionError exactly when it reads a token_count line with both
\* snapshots while no model is in force (none set yet, or the last one set
\* is null), whatever the checkpoint and wherever the line lies with respect
\* to it.
C23_ModelAttribution ==
    CodexParsed =>
        /\ \A i \in DOMAIN cxLast.parsed.token_rows :
              LET row == cxLast.parsed.token_rows[i] IN
              /\ row.model_code # NULL
              /\ row.model_code = CodexActiveModelAt(cxFile, row.event_line_number)
        /\ cxLast.parsed.err = "ModelAttributionError"
              <=> CodexUnattributed(cxFile) # {}

\* C23 witness: a parse with a checkpoint raised ModelAttributionError on a
\* line that lies before the checkpoint, after a turn_context with a null
\* model had followed one with a model.
C23_Witness ==
    /\ CodexParsed
    /\ cxLast.checkpoint # NONE
    /\ cxLast.parsed.err = "ModelAttributionError"
    /\ \E i \in CodexUnattributed(cxFile) :
          /\ ~CodexPassesCheckpoint(cxFile[i].ts, cxFile[i].total.total_tokens,
                                    cxLast.checkpoint)
          /\ \E j \in 1..(i - 1) :
                /\ cxFile[j].type = "turn_context"
                /\ "model" \in DOMAIN cxFile[j]
                /\ cxFile[j].model # NULL

\* C23 second witness: one parse produced rows of two models.
C23_WitnessTwoModels ==
    /\ CodexParsed
    /\ cxLast.parsed.err = NULL
    /\ \E i, j \in DOMAIN cxLast.parsed.token_rows :
          cxLast.parsed.token_rows[i].model_code # cxLast.parsed.token_rows[j].model_code

----------------------------------------------------------------------------
\* The token columns of a row of codex_session_details.
CodexTokenColumns(r) ==
    [input_tokens |-> r.input_tokens, cached_input_tokens |-> r.cached_input_tokens,
     output_tokens |-> r.output_tokens,
     reasoning_output_tokens |-> r.reasoning_output_tokens,
     total_tokens |-> r.total_tokens]

\* C24: a pass that hands to the insert an event whose unique key is already
\* stored does so only with the payload of the stored row, and then stores
\* nothing for it: an event whose payload differs from the stored row under
\* its key makes the pass fail.
C24_ReingestSameKey ==
    /\ \A i \in DOMAIN cxRun :
          cxRun[i].last.outcome = "ingested" =>
              \A j \in DOMAIN cxRun[i].last.deduped :
                  LET new == DetailRow(cxRun[i].last.deduped[j]) IN
                  \A r \in cxRun[i].before.details :
                      (r.session_id = new.session_id
                         /\ r.total_tokens_cumulative = new.total_tokens_cumulative)
                        => /\ CodexTokenColumns(r) = CodexTokenColumns(new)
                           /\ r \in cxRun[i].after.details
    /\ \A pass \in GeminiPasses :
          pass.outcome = "ingested" =>
              \A j \in DOMAIN pass.parsed.usage_rows :
                  LET new == pass.parsed.usage_rows[j] IN
                  \A e \in pass.before.events :
                      (e.project_id = new.project_id
                         /\ e.event_timestamp = new.event_timestamp
                         /\ e.model_code = new.model_code)
                        => /\ e.total_tokens = new.total_tokens
                           /\ e \in pass.after.events

\* The sources at the end of the auto-deactivation loop of the run that the
\* step makes: what the first pass found, or what the run left when it made
\* no pass.
GeminiAfterDeactivation ==
    IF gmLast'.passes = <<>> THEN gmSources' ELSE gmLast'.passes[1].before.sources

\* The step is a run with --all-active that got past the checks made before
\* the sources are listed.
GeminiAllActiveRun ==
    /\ gmLast'.op = "ingest"
    /\ "auto_deactivate" \in DOMAIN gmLast'
    /\ ~(gmLast'.err # NULL /\ gmLast'.passes = <<>>)

\* The active sources whose file does not exist when the run starts.
GeminiMissingSources ==
    {r \in gmSources : r.active /\ gmFiles[r.jsonl_file_path] = NONE}

\* C25: in a run with --all-active, no pass is made over the path of an
\* active source whose file is missing and its row is never deleted; without
\* --auto-deactivate the source stays active and is counted in
\* sources_missing, with --auto-deactivate it is marked inactive and counted
\* in sources_auto_deactivated; every active source whose file exists is a
\* candidate of the run, and a run that returns has made a pass over each.
C25_MissingActiveSources ==
    [][GeminiAllActiveRun =>
         /\ \A r \in GeminiMissingSources :
               /\ \A i \in DOMAIN gmLast'.passes :
                     gmLast'.passes[i].path # r.jsonl_file_path
               /\ \E q \in gmSources' : q.project_id = r.project_id
               /\ IF gmLast'.auto_deactivate
                  THEN [r EXCEPT !.active = FALSE] \in GeminiAfterDeactivation
                  ELSE r \in GeminiAfterDeactivation
         /\ IF gmLast'.auto_deactivate
            THEN /\ gmCounters'.sources_auto_deactivated =
                       Cardinality(GeminiMissingSources)
                 /\ gmCounters'.sources_missing = 0
            ELSE /\ gmCounters'.sources_missing = Cardinality(GeminiMissingSources)
                 /\ gmCounters'.sources_auto_deactivated = 0
         /\ \A r \in gmSources :
               (r.active /\ gmFiles[r.jsonl_file_path] # NONE)
                 => r.jsonl_file_path \in Range(gmLast'.candidate_paths)
         /\ gmLast'.err = NULL =>
               \A p \in Range(gmLast'.candidate_paths) :
                   \E i \in DOMAIN gmLast'.passes : gmLast'.passes[i].path = p
    ]_vars

\* A run with --all-active --auto-deactivate found one source missing, marked
\* it inactive and ingested the file of another source.
C25_Witness ==
    /\ gmLast.op = "ingest"
    /\ "auto_deactivate" \in DOMAIN gmLast
    /\ gmLast.auto_deactivate
    /\ gmLast.err = NULL
    /\ gmCounters.sources_auto_deactivated = 1
    /\ \E r \in gmSources : ~r.active /\ gmFiles[r.jsonl_file_path] = NONE
    /\ \E i \in DOMAIN gmLast.passes : gmLast.passes[i].outcome = "ingested"

\* A run with --all-active alone counted a missing source that stays active.
C25_WitnessStaysActive ==
    /\ gmLast.op = "ingest"
    /\ "auto_deactivate" \in DOMAIN gmLast
    /\ ~gmLast.auto_deactivate
    /\ gmLast.err = NULL
    /\ gmCounters.sources_missing = 1
    /\ \E r \in gmSources : r.active /\ gmFiles[r.jsonl_file_path] = NONE

\* Line i is a token_count event with info one of whose token fields is
\* present and is a string, a float, a boolean or null.
CodexNonInteger(lines, i) ==
    /\ lines[i].type = "token_count"
    /\ "anomaly" \in DOMAIN lines[i]
    /\ lines[i].anomaly.field # NULL
    /\ lines[i].anomaly.json \in {"str", "float", "bool", "null"}

\* C26: a session file with a token_count event one of whose token fields
\* is present and is not a JSON integer (a string, a float, a boolean or
\* null) fails the parse, with ParseError when no earlier event is read
\* while no model is in force, and no row is produced from that event.
C26_StrictNumericTyping ==
    CodexParsed =>
        \A i \in DOMAIN cxFile :
            CodexNonInteger(cxFile, i) =>
                /\ cxLast.parsed.err # NULL
                /\ \A k \in DOMAIN cxLast.parsed.token_rows :
                      cxLast.parsed.token_rows[k].event_line_number # i
                /\ (\A j \in 1..(i - 1) :
                       ~(CodexBothSnapshots(cxFile, j)
                           /\ CodexActiveModelAt(cxFile, j) = NULL))
                     => cxLast.parsed.err = "ParseError"

\* The stored rows of the source message m.
OpencodeStoredRows(m) == {r \in ocUsage : r.message_id = m.id}

\* C27: ingest(full_refresh=True) reads with no checkpoint and never takes
\* the fast skip; when it returns it has scanned every assistant message of
\* the source, and each of them has exactly one stored row, which carries
\* its current token count and time_updated.
C27_FullRefresh ==
    (ocLast.op = "ingest" /\ ocLast.full_refresh) =>
        /\ ocLast.checkpoint = NONE
        /\ ~ocCounters.skipped_no_source_changes
        /\ ocLast.err = NULL =>
              /\ ocCounters.messages_scanned = Cardinality(AssistantRows(ocMessages))
              /\ ocCounters.messages_ingested = Cardinality(AssistantRows(ocMessages))
              /\ \A m \in AssistantRows(ocMessages) :
                    /\ Cardinality(OpencodeStoredRows(m)) = 1
                    /\ \A r \in OpencodeStoredRows(m) :
                          /\ r.input_tokens = m.tokens.value
                          /\ r.source_time_updated_ms = m.time_updated
                          /\ r.session_id = m.session_id

\* A full refresh returned over a source with two assistant messages, the
\* first of them rewritten in the millisecond of the second, so that the
\* rewritten one lies behind the checkpoint a store would hold.
C27_Witness ==
    /\ ocLast.op = "ingest"
    /\ ocLast.full_refresh
    /\ ocLast.err = NULL
    /\ \E m, n \in AssistantRows(ocMessages) :
          /\ m.id < n.id
          /\ m.time_created < m.time_updated
          /\ m.time_updated = n.time_updated
          /\ m.tokens.value = 2

\* The (time_updated, id) tuple of a source message.
OpencodeCursor(m) == <<m.time_updated, m.id>>

\* C28: iter_assistant_rows(checkpoint) yields the assistant messages of the
\* source whose (time_updated, id) is strictly greater than the tuple of the
\* checkpoint, all the assistant messages when the checkpoint is None, and
\* no other row; the rows come in strictly increasing (time_updated, id)
\* order, so each once.
C28_CursorRead ==
    ocLast.op = "read" =>
        LET rows == ocLast.source_rows
            checkpoint == ocLast.checkpoint
        IN  /\ Range(rows) =
                  {m \in ocMessages :
                      /\ m.role = "assistant"
                      /\ \/ checkpoint = NONE
                         \/ CursorLess(<<checkpoint.last_time_updated_ms,
                                         checkpoint.last_message_id>>,
                                       OpencodeCursor(m))}
            /\ \A i, j \in DOMAIN rows :
                  i < j => CursorLess(OpencodeCursor(rows[i]), OpencodeCursor(rows[j]))
            /\ \A i \in DOMAIN rows : rows[i].role = "assistant"

\* A read from a checkpoint left out the assistant message the checkpoint
\* stands at and yielded the one assistant message of the same millisecond
\* with a greater id.
C28_Witness ==
    /\ ocLast.op = "read"
    /\ ocLast.checkpoint # NONE
    /\ Len(ocLast.source_rows) = 1
    /\ ocLast.source_rows[1].time_updated = ocLast.checkpoint.last_time_updated_ms
    /\ ocLast.source_rows[1].id > ocLast.checkpoint.last_message_id
    /\ \E m \in AssistantRows(ocMessages) :
          /\ m.time_updated = ocLast.checkpoint.last_time_updated_ms
          /\ m.id = ocLast.checkpoint.last_message_id

\* A read with no checkpoint yielded two assistant messages, the one with
\* the greater id first, and left out no assistant message.
C28_WitnessOrder ==
    /\ ocLast.op = "read"
    /\ ocLast.checkpoint = NONE
    /\ Len(ocLast.source_rows) = 2
    /\ ocLast.source_rows[1].id > ocLast.source_rows[2].id

----------------------------------------------------------------------------
\* C29: identity of a file under ensure_project_metadata_line.

\* Line 1 of the file is an ordinary event: a JSON object with no
\* record_type key.
MetadataOrdinaryFirstLine(file) ==
    /\ file # NONE
    /\ file.lines # <<>>
    /\ file.lines[1].kind = "object"
    /\ "record_type" \notin DOMAIN file.lines[1]

\* Line 1 of the file has a record_type key.
MetadataTypedFirstLine(file) ==
    /\ file # NONE
    /\ file.lines # <<>>
    /\ file.lines[1].kind = "object"
    /\ "record_type" \in DOMAIN file.lines[1]

\* Line 1 of the file is a valid metadata line.
MetadataValidFirstLine(file) ==
    /\ MetadataTypedFirstLine(file)
    /\ file.lines[1].record_type = PROJECT_METADATA_RECORD_TYPE
    /\ file.lines[1].schema_version = PROJECT_METADATA_SCHEMA_VERSION
    /\ file.lines[1].project_id.json = "str"
    /\ file.lines[1].project_id.form # "invalid"

\* The step is a call of ensure_project_metadata_line.
MetadataEnsureStep == mdLast'.op = "ensure"

\* The call preserved an existing valid metadata line.
MetadataPreserved ==
    MetadataValidFirstLine(mdFile) =>
        /\ mdFile' = mdFile
        /\ mdLast'.err = NULL
        /\ mdLast'.project_id = mdFile.lines[1].project_id.uuid

\* The call prepended a metadata line that carries the id it returned and
\* kept every original line in order.
MetadataPrepended ==
    /\ mdLast'.err = NULL
    /\ Len(mdFile'.lines) = Len(mdFile.lines) + 1
    /\ Tail(mdFile'.lines) = mdFile.lines
    /\ MetadataValidFirstLine(mdFile')
    /\ ParseUuid(mdFile'.lines[1].project_id).uuid = mdLast'.project_id

\* The call raised ValueError and left the file alone.
MetadataRefused ==
    /\ mdLast'.err = "ValueError"
    /\ mdFile' = mdFile

\* A call that follows a call that returned an id returns that id and
\* leaves the file alone.
MetadataSameAgain ==
    (mdLast'.again /\ mdLast.err = NULL) =>
        /\ mdLast'.err = NULL
        /\ mdLast'.project_id = mdLast.project_id
        /\ mdFile' = mdFile

\* A line 1 with a record_type key that is not valid metadata is refused.
MetadataMalformedRefused ==
    (MetadataTypedFirstLine(mdFile) /\ ~MetadataValidFirstLine(mdFile))
        => MetadataRefused

\* C29 (as stated): every call of ensure_project_metadata_line preserves
\* an existing valid metadata line (file unchanged, same project_id on every
\* call); when line 1 is an ordinary event it prepends a new metadata line
\* and keeps all original lines in order, and further calls return that same
\* project_id; a line 1 with a record_type key that is not valid metadata
\* raises without modifying the file.
C29_AsStated ==
    [][MetadataEnsureStep =>
          /\ MetadataPreserved
          /\ MetadataOrdinaryFirstLine(mdFile) => MetadataPrepended
          /\ MetadataSameAgain
          /\ MetadataMalformedRefused]_vars

\* C29 (amended): as above, except that when line 1 is an ordinary event
\* and the temp file of an earlier, killed call exists, the call raises
\* ValueError and leaves the file alone; the metadata line is prepended only
\* when no temp file exists.
C29_IdempotentOnIdentity ==
    [][MetadataEnsureStep =>
          /\ MetadataPreserved
          /\ (MetadataOrdinaryFirstLine(mdFile) /\ ~mdTemp) => MetadataPrepended
          /\ (MetadataOrdinaryFirstLine(mdFile) /\ mdTemp) => MetadataRefused
          /\ MetadataSameAgain
          /\ MetadataMalformedRefused]_vars

\* A second call in a row returned the id the first one minted for a file
\* that began with an ordinary event and grew since; the metadata line
\* stands before the two original lines.
C29_Witness ==
    /\ mdLast.op = "ensure"
    /\ mdLast.again
    /\ mdLast.err = NULL
    /\ mdMinted = 1
    /\ mdLast.project_id = 1
    /\ Len(mdFile.lines) = 3
    /\ mdFile.lines[1] = BuildMetadataLine(1)
    /\ mdFile.lines[2] = EventObject(1)
    /\ mdFile.lines[3] = EventObject(2)

\* A call returned the id of an existing metadata line that spells it in
\* another form than str(UUID) does, and left the line as it was.
C29_WitnessPreserved ==
    /\ mdLast.op = "ensure"
    /\ mdLast.err = NULL
    /\ mdLast.project_id = 0
    /\ mdMinted = 0
    /\ mdFile # NONE
    /\ mdFile.lines[1].project_id = UuidText(0, "upper")

\* A call raised on a line 1 whose record_type is not that of metadata and
\* left both lines of the file in place.
C29_WitnessMalformed ==
    /\ mdLast.op = "ensure"
    /\ mdLast.err = "ValueError"
    /\ MetadataTypedFirstLine(mdFile)
    /\ mdFile.lines[1].record_type # PROJECT_METADATA_RECORD_TYPE
    /\ Len(mdFile.lines) = 2

\* A call raised on a file whose line 1 is an ordinary event, because the
\* temp file exists.
C29_WitnessTemp ==
    /\ mdLast.op = "ensure"
    /\ mdLast.err = "ValueError"
    /\ mdTemp
    /\ MetadataOrdinaryFirstLine(mdFile)

----------------------------------------------------------------------------
\* C30: an ingest() that is killed and run again.

\* No two stored events carry the same key.
CodexKeysOnce ==
    \A r, q \in cxDetails :
        (r.session_id = q.session_id
         /\ r.total_tokens_cumulative = q.total_tokens_cumulative) => r = q

GeminiKeysOnce ==
    \A r, q \in gmEvents :
        (r.project_id = q.project_id /\ r.event_timestamp = q.event_timestamp
         /\ r.model_code = q.model_code) => r = q

OpencodeKeysOnce ==
    \A r, q \in ocUsage : r.message_id = q.message_id => r = q

\* C30: when an ingest run of any pipeline was killed at any point (before a
\* commit, or between two commits) and the same ingest has then run to its
\* end over the same source, the stored events and the checkpoint are those
\* a single run that is not killed leaves; no event is stored twice and none
\* is lost.
C30_ReinvocationAfterInterruption ==
    /\ cxLast.op = "again" =>
          /\ cxDetails = cxLast.expected.details
          /\ cxMeta = cxLast.expected.meta
          /\ cxFileState = cxLast.expected.files
          /\ \A sid \in {r.session_id : r \in cxDetails} :
                GetSessionCheckpoint(cxDetails, sid)
                    = GetSessionCheckpoint(cxLast.expected.details, sid)
          /\ CodexKeysOnce
    /\ gmLast.op = "again" =>
          /\ gmEvents = gmLast.expected.events
          /\ gmSources = gmLast.expected.sources
          /\ GeminiKeysOnce
    /\ ocLast.op = "again" =>
          /\ ocUsage = ocLast.expected.usage
          /\ ocSessions = ocLast.expected.sessions
          /\ GetCheckpoint(ocUsage) = GetCheckpoint(ocLast.expected.usage)
          /\ OpencodeKeysOnce

\* A gemini run was killed between two commits, with events of one source
\* stored and those of another not; the run after it stored the rest.
C30_Witness ==
    /\ gmLast.op = "again"
    /\ gmLast.partial
    /\ gmLast.interrupted.events # {}
    /\ gmLast.interrupted.events # gmLast.expected.events
    /\ gmLast.interrupted.events \subseteq gmEvents
    /\ gmEvents = gmLast.expected.events

\* A gemini run was killed after _reconcile_source had registered a source
\* and before any event of it was committed; the run after it stored them.
C30_WitnessReconciled ==
    /\ gmLast.op = "again"
    /\ gmLast.partial
    /\ gmLast.interrupted.events = {}
    /\ gmLast.interrupted.sources # {}
    /\ \A r \in gmLast.interrupted.sources : r.checkpoint = NONE
    /\ gmEvents # {}

\* A codex run was killed with one session file committed and another not;
\* the run after it stored the rows of the other.
C30_WitnessCodex ==
    /\ cxLast.op = "again"
    /\ cxLast.partial
    /\ cxLast.interrupted.details # {}
    /\ cxLast.interrupted.details # cxDetails
    /\ cxLast.interrupted.details \subseteq cxDetails

\* An opencode run was killed after its first batch; the run after it
\* stored the message of the second batch.
C30_WitnessOpencode ==
    /\ ocLast.op = "again"
    /\ ocLast.partial
    /\ Cardinality(ocLast.interrupted.usage) = 1
    /\ Cardinality(ocUsage) = 2

----------------------------------------------------------------------------
\* C31: the checkpoint of a gemini source and the events stored for it.

\* The stored events of project_id that carry the key of checkpoint.
GeminiEventsAtCheckpoint(events, project_id, checkpoint) ==
    {e \in events :
        /\ e.project_id = project_id
        /\ e.event_timestamp = checkpoint.last_event_timestamp
        /\ e.model_code = checkpoint.last_model_code}

\* C31: in every committed state each tracked source with a checkpoint has a
\* stored usage event of its project whose (event_timestamp, model_code) is
\* the key of the checkpoint.
C31_CheckpointHasEvent ==
    \A r \in gmSources :
        r.checkpoint # NONE =>
            GeminiEventsAtCheckpoint(gmEvents, r.project_id, r.checkpoint) # {}

\* A run that started from a checkpoint moved it on to an event of the same
\* timestamp and stored that event beside the one of the old checkpoint.
C31_Witness ==
    /\ gmLast.op = "ingest"
    /\ \E i \in DOMAIN gmLast.passes :
          /\ gmLast.passes[i].outcome = "ingested"
          /\ gmLast.passes[i].checkpoint # NONE
          /\ \E r \in gmSources :
                /\ r.checkpoint # NONE
                /\ r.checkpoint # gmLast.passes[i].checkpoint
                /\ r.checkpoint.last_event_timestamp
                      = gmLast.passes[i].checkpoint.last_event_timestamp
                /\ GeminiEventsAtCheckpoint(gmEvents, r.project_id, r.checkpoint) # {}
                /\ GeminiEventsAtCheckpoint(gmEvents, r.project_id,
                                            gmLast.passes[i].checkpoint) # {}

----------------------------------------------------------------------------
\* C32: the fast skip of the opencode ingest().

\* The last ingest() returned at once, with skipped_no_source_changes.
OpencodeFastSkipped ==
    /\ ocLast.op = "ingest"
    /\ ocCounters.skipped_no_source_changes

\* The greatest time_updated of the assistant messages of the source is
\* absent or lies before that of the checkpoint.
OpencodeSourceBehind(checkpoint) ==
    \A m \in AssistantRows(ocMessages) :
        m.time_updated < checkpoint.last_time_updated_ms

C32_WitnessEmpty ==
    /\ OpencodeFastSkipped
    /\ AssistantRows(ocMessages) = {}
    /\ ocUsage # {}

\* A run whose checkpoint carries the greatest time_updated of the source
\* queried the source and found nothing new.
C32_WitnessEqual ==
    /\ ocLast.op = "ingest"
    /\ ~ocLast.full_refresh
    /\ ocLast.checkpoint # NONE
    /\ ~ocCounters.skipped_no_source_changes
    /\ ocLast.source_rows = <<>>
    /\ \E m \in AssistantRows(ocMessages) :
          m.time_updated = ocLast.checkpoint.last_time_updated_ms

----------------------------------------------------------------------------
\* C33: the stored rows of a codex session add up.

\* The stored rows of the session.
CodexSessionRows == {r \in cxDetails : r.session_id = CodexSession}

\* later follows earlier in the order of total_tokens_cumulative.
CodexAdjacentRows(earlier, later) ==
    /\ earlier.total_tokens_cumulative < later.total_tokens_cumulative
    /\ \A r \in CodexSessionRows :
          ~(/\ earlier.total_tokens_cumulative < r.total_tokens_cumulative
            /\ r.total_tokens_cumulative < later.total_tokens_cumulative)

\* C33: for a session file that is only ever appended to with timestamps
\* that never decrease, after any sequence of ingest runs every adjacent
\* pair of the stored rows of the session, in the order of
\* total_tokens_cumulative, has the incremental total_tokens of the later
\* row equal to the difference of the two cumulative totals, also where the
\* two rows were stored by different runs.
C33_NoDoubleCounting ==
    \A earlier, later \in CodexSessionRows :
        CodexAdjacentRows(earlier, later) =>
            later.total_tokens
                = later.total_tokens_cumulative - earlier.total_tokens_cumulative

\* A run that started from a checkpoint stored a row beside the rows of
\* earlier runs: three rows of the session are stored, each adjacent pair
\* adding up.
C33_Witness ==
    /\ cxLast.op = "ingest"
    /\ cxLast.outcome = "ingested"
    /\ cxLast.checkpoint # NONE
    /\ Cardinality(CodexSessionRows) = 3
    /\ \E r \in CodexSessionRows :
          r.total_tokens_cumulative > cxLast.checkpoint.last_total_tokens_cumulative
    /\ \E earlier, later \in CodexSessionRows :
          /\ CodexAdjacentRows(earlier, later)
          /\ earlier.total_tokens_cumulative
                = cxLast.checkpoint.last_total_tokens_cumulative

\* The passes of the last gemini run that ingested their source.
GeminiIngestedPasses ==
    IF gmLast.op = "ingest"
    THEN {i \in DOMAIN gmLast.passes : gmLast.passes[i].outcome = "ingested"}
    ELSE {}

\* C34: the rows a successful codex pass read are the rows it skipped before
\* the checkpoint, the duplicates it dropped and the rows it kept; the events
\* a successful gemini pass read are the events it skipped before the
\* checkpoint and the rows it handed to the insert.
C34_RowAccounting ==
    /\ (cxLast.op = "ingest" /\ cxLast.outcome = "ingested") =>
          /\ cxCounters.token_rows_deduped = Len(cxLast.deduped)
          /\ cxCounters.duplicate_rows_skipped = cxLast.duplicate_rows_skipped
          /\ cxCounters.token_rows_raw
                = cxCounters.token_rows_skipped_before_checkpoint
                    + cxCounters.duplicate_rows_skipped
                    + cxCounters.token_rows_deduped
    /\ \A i \in GeminiIngestedPasses :
          gmLast.passes[i].parsed.usage_events_total
            = gmLast.passes[i].parsed.usage_events_skipped_before_checkpoint
                + Len(gmLast.passes[i].parsed.usage_rows)
    /\ gmLast.op = "ingest" =>
          gmCounters.usage_events_total
            = gmCounters.usage_events_skipped_before_checkpoint
                + gmCounters.usage_rows_attempted_insert

\* A codex pass that skipped a row before the checkpoint, dropped a duplicate
\* and kept a row.
C34_Witness ==
    /\ cxLast.op = "ingest"
    /\ cxLast.outcome = "ingested"
    /\ cxCounters.token_rows_skipped_before_checkpoint > 0
    /\ cxCounters.duplicate_rows_skipped > 0
    /\ cxCounters.token_rows_deduped > 0

\* A gemini pass that skipped an event before the checkpoint and handed a row
\* to the insert.
C34_WitnessGemini ==
    \E i \in GeminiIngestedPasses :
        /\ gmLast.passes[i].parsed.usage_events_skipped_before_checkpoint > 0
        /\ Len(gmLast.passes[i].parsed.usage_rows) > 0

\* The snapshot codex_ingestion_files holds of the session file, and the one
\* the file has now.
CodexStoredSnapshot(files) ==
    LET f == GetFileState(files, CodexPath) IN
    IF f = NONE THEN NONE
    ELSE [file_size_bytes |-> f.file_size_bytes, file_mtime |-> f.file_mtime]

CodexCurrentSnapshot(lines, mtime) ==
    [file_size_bytes |-> Len(lines), file_mtime |-> mtime]

CodexLastFailed(last) == last.op = "ingest" /\ last.outcome \in CodexFileErrors

\* The snapshot the sources hold under a path, and the one the file has now.
GeminiStoredSnapshot(sources, path) ==
    LET r == GetSourceByPath(sources, path) IN
    IF r = NONE THEN NONE ELSE r.snapshot

GeminiCurrentSnapshot(files, path) ==
    [file_size_bytes |-> 1 + Len(files[path].events),
     file_mtime |-> files[path].mtime]

\* The snapshots the sources hold, by project.
GeminiSnapshots(sources) ==
    {[project_id |-> r.project_id, snapshot |-> r.snapshot] :
        r \in {q \in sources : q.snapshot # NONE}}

\* A pass that failed while the file was read.
GeminiParseFailed(pass) ==
    /\ pass.outcome \notin {"ingested", "skipped_unchanged"}
    /\ pass.parsed # NONE

\* The passes of the run a step made, if it made one.
GeminiPassesOf(last) == IF last.op = "ingest" THEN last.passes ELSE <<>>

\* What a codex run does with the snapshot of the session file.
CodexRetryStep ==
    cxLast'.op = "ingest" =>
      /\ CodexLastFailed(cxLast') =>
            /\ CodexStoredSnapshot(cxFileState') = CodexStoredSnapshot(cxFileState)
            /\ CodexStoredSnapshot(cxFileState') # CodexCurrentSnapshot(cxFile, cxMtime)
      /\ CodexLastFailed(cxLast) => CodexLastFailed(cxLast')
      /\ cxLast'.outcome = "skipped_unchanged" =>
            /\ CodexStoredSnapshot(cxFileState') = CodexStoredSnapshot(cxFileState)
            /\ CodexStoredSnapshot(cxFileState) = CodexCurrentSnapshot(cxFile, cxMtime)
      /\ CodexStoredSnapshot(cxFileState') # CodexStoredSnapshot(cxFileState) =>
            /\ cxLast'.outcome = "ingested"
            /\ CodexStoredSnapshot(cxFileState') = CodexCurrentSnapshot(cxFile, cxMtime)

\* What a gemini run does with the snapshots of its sources.
GeminiRetryStep ==
    LET passes == GeminiPassesOf(gmLast')
        earlier == GeminiPassesOf(gmLast)
    IN
    /\ \A i \in DOMAIN passes :
          /\ GeminiParseFailed(passes[i]) =>
                /\ GeminiSnapshots(passes[i].after.sources)
                      = GeminiSnapshots(passes[i].before.sources)
                /\ GeminiStoredSnapshot(passes[i].after.sources, passes[i].path)
                      # GeminiCurrentSnapshot(gmFiles, passes[i].path)
                /\ \A j \in DOMAIN earlier :
                      /\ earlier[j].path = passes[i].path
                      /\ GeminiParseFailed(earlier[j])
                      => GeminiParseFailed(passes[i])
          /\ passes[i].outcome = "skipped_unchanged" =>
                /\ GeminiSnapshots(passes[i].after.sources)
                      = GeminiSnapshots(passes[i].before.sources)
                /\ GeminiStoredSnapshot(passes[i].after.sources, passes[i].path)
                      = GeminiCurrentSnapshot(gmFiles, passes[i].path)
                /\ \A j \in DOMAIN earlier :
                      earlier[j].path = passes[i].path
                      => ~GeminiParseFailed(earlier[j])
          /\ GeminiSnapshots(passes[i].after.sources)
                # GeminiSnapshots(passes[i].before.sources) =>
                /\ passes[i].outcome = "ingested"
                /\ GeminiStoredSnapshot(passes[i].after.sources, passes[i].path)
                      = GeminiCurrentSnapshot(gmFiles, passes[i].path)

C35_WitnessGemini ==
    \E i \in DOMAIN GeminiPassesOf(gmLast) :
        /\ GeminiParseFailed(gmLast.passes[i])
        /\ GeminiStoredSnapshot(gmSources, gmLast.passes[i].path) # NONE
        /\ GeminiStoredSnapshot(gmSources, gmLast.passes[i].path)
              # GeminiCurrentSnapshot(gmFiles, gmLast.passes[i].path)

\* C36: a step leaves every stored codex_session_details row and every
\* stored gemini_usage_events row in the table with the values it had; the
\* tables only grow.
C36_StoredEventsImmutable ==
    [][/\ cxDetails \subseteq cxDetails'
       /\ gmEvents \subseteq gmEvents']_vars

\* A codex pass handed to the insert a row whose key was stored with other
\* values, and the stored row is the one the table holds.
C36_Witness ==
    /\ cxLast.op = "ingest"
    /\ cxLast.outcome = "ingested"
    /\ \E j \in DOMAIN cxLast.deduped :
          LET new == DetailRow(cxLast.deduped[j]) IN
          /\ new \notin cxDetails
          /\ \E r \in cxDetails :
                /\ r.session_id = new.session_id
                /\ r.total_tokens_cumulative = new.total_tokens_cumulative

\* A gemini pass handed to the insert a row whose key was stored with
\* another token count, and the stored row is the one the table holds.
C36_WitnessGemini ==
    \E i \in GeminiIngestedPasses :
        \E j \in DOMAIN gmLast.passes[i].parsed.usage_rows :
            LET new == gmLast.passes[i].parsed.usage_rows[j] IN
            /\ new \notin gmEvents
            /\ \E e \in gmEvents :
                  /\ e.project_id = new.project_id
                  /\ e.event_timestamp = new.event_timestamp
                  /\ e.model_code = new.model_code

\* A stored snapshot of the size the file has and of another mtime: the file
\* was touched after the pass that read the content it has.
SnapshotOfSameContent(stored, current) ==
    /\ stored # NONE
    /\ stored.file_size_bytes = current.file_size_bytes
    /\ stored.file_mtime # current.file_mtime

\* The checkpoints the sources hold, by project.
GeminiCheckpoints(sources) ==
    {[project_id |-> r.project_id, checkpoint |-> r.checkpoint] : r \in sources}

CodexReparseStep ==
    /\ cxLast'.op = "ingest"
    /\ SnapshotOfSameContent(CodexStoredSnapshot(cxFileState),
                             CodexCurrentSnapshot(cxFile, cxMtime))
    => /\ cxLast'.outcome = "ingested"
       /\ cxDetails' = cxDetails
       /\ GetSessionCheckpoint(cxDetails', CodexSession)
             = GetSessionCheckpoint(cxDetails, CodexSession)
       /\ CodexStoredSnapshot(cxFileState') = CodexCurrentSnapshot(cxFile, cxMtime)

GeminiReparseStep ==
    LET passes == GeminiPassesOf(gmLast') IN
    \A i \in DOMAIN passes :
        SnapshotOfSameContent(
            GeminiStoredSnapshot(passes[i].before.sources, passes[i].path),
            GeminiCurrentSnapshot(gmFiles, passes[i].path))
        => /\ passes[i].outcome = "ingested"
           /\ passes[i].after.events = passes[i].before.events
           /\ GeminiCheckpoints(passes[i].after.sources)
                 = GeminiCheckpoints(passes[i].before.sources)
           /\ GeminiStoredSnapshot(passes[i].after.sources, passes[i].path)
                 = GeminiCurrentSnapshot(gmFiles, passes[i].path)

\* C37: a run over a source whose snapshot changed and whose content is the
\* one its last successful pass read succeeds, inserts no event row, leaves
\* the checkpoint as it was and records the new snapshot.
C37_ReparseUnchanged == [][CodexReparseStep /\ GeminiReparseStep]_vars

\* The gemini half of the statement holds by itself.
C37_GeminiReparse == [][GeminiReparseStep]_vars

\* A gemini pass read a touched file again: it succeeded, skipped or handed
\* over the events of the file and recorded the snapshot the file has.
C37_WitnessGemini ==
    \E i \in GeminiIngestedPasses :
        /\ SnapshotOfSameContent(
               GeminiStoredSnapshot(gmLast.passes[i].before.sources,
                                    gmLast.passes[i].path),
               GeminiCurrentSnapshot(gmFiles, gmLast.passes[i].path))
        /\ gmLast.passes[i].parsed.usage_events_total > 0
        /\ GeminiStoredSnapshot(gmSources, gmLast.passes[i].path)
              = GeminiCurrentSnapshot(gmFiles, gmLast.passes[i].path)

\* The usage rows the batches of a run committed, in the order of the commits.
RECURSIVE OpencodeFlushedRows(_)
OpencodeFlushedRows(flushed) ==
    IF flushed = <<>> THEN <<>>
    ELSE Head(flushed) \o OpencodeFlushedRows(Tail(flushed))

\* The assistant messages of the source after a checkpoint.
OpencodeAfter(checkpoint) ==
    {m \in AssistantRows(ocMessages) : SelectedByCheckpoint(m, checkpoint)}

\* An incremental ingest() that raised.
OpencodeFailedIncremental(last) ==
    /\ last.op = "ingest"
    /\ ~last.full_refresh
    /\ last.err # NULL

OpencodePrefixStep ==
    OpencodeFailedIncremental(ocLast') =>
      LET rows == ocLast'.source_rows
          done == OpencodeFlushedRows(ocLast'.flushed)
          n == Len(done)
      IN  /\ n < Len(rows)
          /\ {rows[i] : i \in DOMAIN rows} = OpencodeAfter(GetCheckpoint(ocUsage))
          /\ \A i, j \in DOMAIN rows :
                i < j => CursorLess(<<rows[i].time_updated, rows[i].id>>,
                                    <<rows[j].time_updated, rows[j].id>>)
          /\ \A i \in 1..n :
                /\ done[i].message_id = rows[i].id
                /\ done[i].source_time_updated_ms = rows[i].time_updated
          /\ ocUsage' = {u \in ocUsage :
                            \A i \in 1..n : u.message_id # done[i].message_id}
                        \cup {done[i] : i \in 1..n}
          /\ OpencodeAfter(GetCheckpoint(ocUsage'))
                = {rows[i] : i \in (n + 1)..Len(rows)}

\* C38: an incremental ingest() that raises has committed a prefix, in the
\* order of (time_updated, id), of the source rows after the checkpoint it
\* started from, and the checkpoint it leaves selects the rows of the source
\* that follow the prefix, all of them.
C38_PartialFailurePrefix == [][OpencodePrefixStep]_vars

\* An incremental ingest() started from a checkpoint with a batch size
\* smaller than the number of new rows, committed a batch and raised on a
\* later row.
C38_Witness ==
    /\ OpencodeFailedIncremental(ocLast)
    /\ ocLast.checkpoint # NONE
    /\ ocLast.flushed # <<>>
    /\ ocLast.batch_size < Len(ocLast.source_rows)
    /\ GetCheckpoint(ocUsage) # ocLast.checkpoint
    /\ OpencodeAfter(GetCheckpoint(ocUsage)) # {}

\* The events the output holds, by their place in the log, in file order.
RECURSIVE OutputEvents(_)
OutputEvents(lines) ==
    IF lines = <<>> THEN <<>>
    ELSE (IF "attributes" \in DOMAIN Head(lines)
          THEN <<Head(lines).attributes.seq>> ELSE <<>>)
         \o OutputEvents(Tail(lines))

NoEventTwice(file) ==
    file # NONE =>
      LET events == OutputEvents(file.lines) IN
      \A i, j \in DOMAIN events : events[i] = events[j] => i = j

\* The timestamps of the log never decrease from one record to the next.
LogInOrder(log) ==
    \A i, j \in DOMAIN log :
        (i < j /\ log[i].has_timestamp /\ log[j].has_timestamp)
        => log[i].ts <= log[j].ts

\* run_log_conversion runs again with the same level on the log and the
\* output the run before it left.
LogConvertAgain(last) == last.op = "convert" /\ last.err = NULL /\ last.again

\* C39 as stated: whatever the order of the timestamps in the log, a second
\* conversion of the unchanged log appends nothing to the output and no
\* event is in the output twice.
C39_AsStated ==
    [][/\ LogConvertAgain(mdLast') => mdFile' = mdFile
       /\ NoEventTwice(mdFile')]_vars

\* C39, corrected: when the timestamps of the log never decrease, a second
\* conversion of the unchanged log appends nothing to the output and no
\* event is in the output twice.
C39_IdempotentInOrder ==
    [][LogInOrder(mdLog') =>
         /\ LogConvertAgain(mdLast') => mdFile' = mdFile
         /\ NoEventTwice(mdFile')]_vars

\* A second conversion of a log of records with ascending timestamps found
\* the events of the log in the output and skipped them.
C39_Witness ==
    /\ LogConvertAgain(mdLast)
    /\ LogInOrder(mdLog)
    /\ mdLast.converted_count = 0
    /\ mdLast.skipped_count >= 2
    /\ Len(OutputEvents(mdFile.lines)) >= 2
    /\ \E i, j \in DOMAIN mdLog :
          mdLog[i].has_timestamp /\ mdLog[j].has_timestamp /\ mdLog[i].ts < mdLog[j].ts

\* A second conversion of a log whose timestamps descend wrote an event of
\* the log into the output again.
C39_WitnessTwice ==
    /\ LogConvertAgain(mdLast)
    /\ ~LogInOrder(mdLog)
    /\ mdLast.converted_count > 0
    /\ ~NoEventTwice(mdFile)

====
